---------------------------- MODULE Spec2Model ----------------------------
(***************************************************************************)
(* A model of go-microdata-extract: the W3C microdata walker               *)
(* (W3CMicrodata, parseW3CMicrodata, parseProperties and their helpers,    *)
(* as one step and call by call),                                          *)
(* the Extractor (New, its setters, Extract with its processor goroutines  *)
(* and its getters), the JSON-LD extractor (JSONLD, extractJSONLD) and the *)
(* OpenGraph and X Cards extractors (ParseOpenGraph, ParseXCards).  Each   *)
(* part has its own specifications; the variables of the other parts stay  *)
(* at their idle values.                                                   *)
(*                                                                         *)
(* Strings are sequences of one-character strings, so that TrimSpace,      *)
(* HasPrefix and HasSuffix are computed and not assumed.  The document is  *)
(* the tree html.Parse hands to the walker: doc[i] is the i-th node in     *)
(* document (depth-first pre-order) order, doc[i].parent its parent, and   *)
(* node 0 stands for the attribute-less top of the tree (the Document      *)
(* node down to <body>), which parseNode only descends through.            *)
(*                                                                         *)
(* Every Item and every string value carries the auxiliary field `node`,   *)
(* the document node it was read from.  The code has no such field; it is  *)
(* history information that lets the properties below relate the result    *)
(* to the document.  No definition that models code reads it.              *)
(***************************************************************************)
EXTENDS Integers, Naturals, Sequences, FiniteSets, TLC

VARIABLES
    doc,      \* the parsed document handed to the walker
    URL,      \* the base URL argument of W3CMicrodata
    pc,       \* "call" before W3CMicrodata runs, "done" after it returned
    items,    \* the []MicrodataItem W3CMicrodata returned
    errors,   \* the []error W3CMicrodata returned
    extractor, \* the Extractor e: cfg, url, content, extracted, errs
    last,     \* the last call on the Extractor: op, arg, and the error
              \* Extract returned (<<>> for nil)
    ex,       \* the locals of Extract: where it is, processors, the index
              \* of its launch loop, mu (0 free, else the holder), wg
    g,        \* the processor goroutines of Extract, in launch order
    ld,       \* a call of JSONLD: where it is, the contents of the
              \* script blocks of the page, the results and the errors
    meta,     \* a call of ParseOpenGraph or ParseXCards: where it is, the
              \* tokens of the page, the index of the next token, the
              \* structs and flags of the loops, the result
    walk      \* W3CMicrodata run call by call: the stack of the calls of
              \* parseNode, parseProperties and the closure f, the local
              \* items, the strings.Builder, and how often each function
              \* was entered with each node

walker == <<doc, URL, pc, items, errors, walk>>

vars ==
    <<doc, URL, pc, items, errors, extractor, last, ex, g, ld, meta, walk>>

\* Largest number of nodes of a document below node 0.
MaxNodes == 4

(***************************************************************************)
(* Strings                                                                 *)
(***************************************************************************)
IsSpace(ch) == ch \in {" ", "\t", "\n", "\r"}

RECURSIVE TrimLeft(_)
TrimLeft(s) ==
    IF s # <<>> /\ IsSpace(Head(s)) THEN TrimLeft(Tail(s)) ELSE s

RECURSIVE TrimRight(_)
TrimRight(s) ==
    IF s # <<>> /\ IsSpace(s[Len(s)])
    THEN TrimRight(SubSeq(s, 1, Len(s) - 1))
    ELSE s

TrimSpace(s) == TrimRight(TrimLeft(s))

HasPrefix(s, prefix) ==
    Len(s) >= Len(prefix) /\ SubSeq(s, 1, Len(prefix)) = prefix

HasSuffix(s, suffix) ==
    Len(s) >= Len(suffix)
    /\ SubSeq(s, Len(s) - Len(suffix) + 1, Len(s)) = suffix

(***************************************************************************)
(* The document tree                                                       *)
(***************************************************************************)
ElementNode == "ElementNode"
TextNode    == "TextNode"

NodeIds == 1..Len(doc)

\* n.FirstChild, c.NextSibling, ...: the children of n in document order.
RECURSIVE ChildrenFrom(_, _)
ChildrenFrom(n, i) ==
    IF i > Len(doc) THEN <<>>
    ELSE IF doc[i].parent = n THEN <<i>> \o ChildrenFrom(n, i + 1)
    ELSE ChildrenFrom(n, i + 1)

Children(n) == ChildrenFrom(n, 1)

NodeType(n) == IF n = 0 THEN "DocumentNode" ELSE doc[n].Type

NodeAttr(n) == IF n = 0 THEN <<>> ELSE doc[n].Attr

(***************************************************************************)
(* Attribute helpers                                                       *)
(***************************************************************************)
\* getAttr: whether the node has an attribute named key.
getAttr(n, key) ==
    \E i \in 1..Len(NodeAttr(n)) : NodeAttr(n)[i].Key = key

\* The first attribute named key, 0 when there is none (the range loop).
RECURSIVE attrIndexFrom(_, _, _)
attrIndexFrom(attr, key, i) ==
    IF i > Len(attr) THEN 0
    ELSE IF attr[i].Key = key THEN i
    ELSE attrIndexFrom(attr, key, i + 1)

\* getAttrVal: the trimmed value of the first attribute named key, "" when
\* the node has no such attribute.
getAttrVal(n, key) ==
    LET i == attrIndexFrom(NodeAttr(n), key, 1)
    IN  IF i = 0 THEN <<>> ELSE TrimSpace(NodeAttr(n)[i].Val)

(***************************************************************************)
(* Values of a property slot: Go's `any` holding nil, a string, a          *)
(* *MicrodataItem or a []any.                                              *)
(***************************************************************************)
Nil == [tag |-> "nil"]

StringValue(s, n) == [tag |-> "string", s |-> s, node |-> n]

ItemValue(item) == [tag |-> "item", item |-> item]

SliceValue(vals) == [tag |-> "slice", vals |-> vals]

\* m[k] of a Go map: the zero value (nil) for a missing key.
MapGet(m, k) == IF k \in DOMAIN m THEN m[k] ELSE Nil

\* m[k] = v of a Go map.
MapSet(m, k, v) ==
    [x \in (DOMAIN m) \cup {k} |-> IF x = k THEN v ELSE m[x]]

\* make(map[string]any)
EmptyMap == [x \in {} |-> Nil]

\* A nil *string; a non-nil one is the one-element sequence <<s>>.
NilID == <<>>

\* appendValue without the []any case of its type switch.
appendValueNoSlice(existing, value) ==
    IF existing = Nil THEN value
    ELSE SliceValue(<<existing, value>>)

appendValue(existing, value) ==
    IF existing = Nil THEN value
    ELSE IF existing.tag = "slice"
         THEN SliceValue(Append(existing.vals, value))
         ELSE SliceValue(<<existing, value>>)

(***************************************************************************)
(* getTextContent                                                          *)
(***************************************************************************)
\* The raw value of the first attribute named "value" of an element.
valueAttr(n) ==
    LET i == attrIndexFrom(NodeAttr(n), "value", 1)
    IN  IF i = 0 THEN <<>> ELSE NodeAttr(n)[i].Val

RECURSIVE textScan(_, _)
RECURSIVE textScanChildren(_, _)
\* The closure f without its test of sb: every text node is appended.
textScanEveryText(n, sb) ==
    LET sb1 == IF NodeType(n) = TextNode
               THEN sb \o doc[n].Data
               ELSE IF NodeType(n) = ElementNode
               THEN sb \o valueAttr(n)
               ELSE sb
    IN  textScanChildren(Children(n), sb1)

\* The closure f testing the trimmed builder: a text node is appended as
\* long as nothing but white space has been accumulated.
textScanTrimmed(n, sb) ==
    LET sb1 == IF NodeType(n) = TextNode
               THEN (IF TrimSpace(sb) = <<>> THEN sb \o doc[n].Data ELSE sb)
               ELSE IF NodeType(n) = ElementNode
               THEN sb \o valueAttr(n)
               ELSE sb
    IN  textScanChildren(Children(n), sb1)

\* The closure f of getTextContent: sb is the strings.Builder so far.
textScan(n, sb) ==
    LET sb1 == IF NodeType(n) = TextNode
               THEN (IF sb = <<>> THEN sb \o doc[n].Data ELSE sb)
               ELSE IF NodeType(n) = ElementNode
               THEN sb \o valueAttr(n)
               ELSE sb
    IN  textScanChildren(Children(n), sb1)

textScanChildren(cs, sb) ==
    IF cs = <<>> THEN sb
    ELSE textScanChildren(Tail(cs), textScan(Head(cs), sb))

getTextContent(n) == TrimSpace(textScan(n, <<>>))

(***************************************************************************)
(* url.Parse (net/url), as far as the base URLs of the model need it: no   *)
(* fragment, user info, IPv6 literal, port digits or percent escape occurs *)
(* in them.                                                                *)
(***************************************************************************)
IsLetter(ch) ==
    ch \in {"a", "b", "h", "p", "q", "s", "t", "H"}

ToLowerChar(ch) == IF ch = "H" THEN "h" ELSE ch

ToLower(s) == [i \in 1..Len(s) |-> ToLowerChar(s[i])]

\* strings.Index(s, ch) + 1: the first position of ch in s, 0 when absent.
RECURSIVE IndexFrom(_, _, _)
IndexFrom(s, ch, i) ==
    IF i > Len(s) THEN 0
    ELSE IF s[i] = ch THEN i
    ELSE IndexFrom(s, ch, i + 1)

Index(s, ch) == IndexFrom(s, ch, 1)

\* strings.Cut(s, ch), the part before the separator.
CutBefore(s, ch) ==
    IF Index(s, ch) = 0 THEN s ELSE SubSeq(s, 1, Index(s, ch) - 1)

\* getScheme: [err, scheme, rest].
RECURSIVE getSchemeFrom(_, _)
getSchemeFrom(rawURL, i) ==
    IF i > Len(rawURL)
    THEN [err |-> FALSE, scheme |-> <<>>, rest |-> rawURL]
    ELSE IF IsLetter(rawURL[i]) THEN getSchemeFrom(rawURL, i + 1)
    ELSE IF rawURL[i] = ":"
    THEN IF i = 1
         THEN [err |-> TRUE, scheme |-> <<>>, rest |-> <<>>]
         ELSE [err |-> FALSE, scheme |-> SubSeq(rawURL, 1, i - 1),
               rest |-> SubSeq(rawURL, i + 1, Len(rawURL))]
    ELSE [err |-> FALSE, scheme |-> <<>>, rest |-> rawURL]

getScheme(rawURL) == getSchemeFrom(rawURL, 1)

\* parseHost: a host with a byte that must be escaped (a space) is invalid,
\* and so is one with a port that is not made of digits.
validHost(host) ==
    /\ Index(host, " ") = 0
    /\ \A i \in 1..Len(host) : host[i] = ":" => i = Len(host)

ParseError == [err |-> TRUE, Scheme |-> <<>>, Host |-> <<>>]

urlParse(rawURL) ==
    LET sch       == getScheme(rawURL)
        rest      == CutBefore(sch.rest, "?")
        scheme    == ToLower(sch.scheme)
        authRest  == SubSeq(rest, 3, Len(rest))
        authority == CutBefore(authRest, "/")
    IN  IF sch.err THEN ParseError
        ELSE IF ~HasPrefix(rest, <<"/">>) /\ scheme # <<>>
        THEN [err |-> FALSE, Scheme |-> scheme, Host |-> <<>>]
        ELSE IF ~HasPrefix(rest, <<"/">>)
                /\ Index(CutBefore(rest, "/"), ":") # 0
        THEN ParseError
        ELSE IF (scheme # <<>> \/ ~HasPrefix(rest, <<"/", "/", "/">>))
                /\ HasPrefix(rest, <<"/", "/">>)
        THEN IF validHost(authority)
             THEN [err |-> FALSE, Scheme |-> scheme, Host |-> authority]
             ELSE ParseError
        ELSE [err |-> FALSE, Scheme |-> scheme, Host |-> <<>>]

(***************************************************************************)
(* parseProperties                                                         *)
(***************************************************************************)
\* newItem with the itemtype attribute taken as written, untrimmed.
newItemRawType(n) ==
    LET itemType == IF getAttr(n, "itemtype")
                    THEN doc[n].Attr[attrIndexFrom(doc[n].Attr,
                                                   "itemtype", 1)].Val
                    ELSE <<>>
        itemID   == getAttrVal(n, "itemid")
    IN  [node       |-> n,
         Type       |-> itemType,
         ID         |-> IF itemID # <<>> THEN <<itemID>> ELSE NilID,
         Properties |-> EmptyMap]

\* The item both parseNode and parseProperties build for a scope element n
\* before its properties are scanned.
newItem(n) ==
    LET itemType == getAttrVal(n, "itemtype")
        itemID   == getAttrVal(n, "itemid")
    IN  [node       |-> n,
         Type       |-> IF itemType # <<>> THEN itemType ELSE <<>>,
         ID         |-> IF itemID # <<>> THEN <<itemID>> ELSE NilID,
         Properties |-> EmptyMap]

\* baseURLOf keeping the whole base URL, path and query included.
baseURLOfWhole(rawURL) ==
    IF ~urlParse(rawURL).err THEN rawURL ELSE <<>>

\* fmt.Sprintf("%s://%s", parsedURL.Scheme, parsedURL.Host), or "" when the
\* base URL does not parse.
baseURLOf(rawURL) ==
    LET parsedURL == urlParse(rawURL)
    IN  IF ~parsedURL.err
        THEN parsedURL.Scheme \o <<":", "/", "/">> \o parsedURL.Host
        ELSE <<>>

IsAbsoluteHref(href) ==
    \/ HasPrefix(href, <<"/", "/">>)
    \/ HasPrefix(href, <<"h", "t", "t", "p", ":", "/", "/">>)
    \/ HasPrefix(href, <<"h", "t", "t", "p", "s", ":", "/", "/">>)

IsUrlProp(prop) ==
    prop = <<"u", "r", "l">> \/ HasSuffix(prop, <<"U", "r", "l">>)

\* propertyValue with the URL rule tried before the datetime rule.
propertyValueUrlFirst(c, prop, rawURL) ==
    LET datetime == getAttrVal(c, "datetime")
        href     == getAttrVal(c, "href")
    IN  IF IsUrlProp(prop)
        THEN IF IsAbsoluteHref(href) THEN href
             ELSE baseURLOf(rawURL) \o href
        ELSE IF datetime # <<>> THEN datetime
        ELSE getTextContent(c)

\* The string bound to property prop for the non-scope property element c.
propertyValue(c, prop, rawURL) ==
    LET datetime == getAttrVal(c, "datetime")
        href     == getAttrVal(c, "href")
    IN  IF datetime # <<>> THEN datetime
        ELSE IF IsUrlProp(prop)
        THEN IF IsAbsoluteHref(href) THEN href
             ELSE baseURLOf(rawURL) \o href
        ELSE getTextContent(c)

SetProperty(item, prop, value) ==
    [item EXCEPT !.Properties =
        MapSet(@, prop, appendValue(MapGet(@, prop), value))]

RECURSIVE parseProperties(_, _, _)
RECURSIVE parsePropertiesFrom(_, _, _)
\* The body of parseProperties' loop for the child c.
parsePropertiesChild(c, item, rawURL) ==
    IF NodeType(c) # ElementNode THEN item
    ELSE LET prop == getAttrVal(c, "itemprop")
         IN  IF prop # <<>>
             THEN IF getAttr(c, "itemscope")
                  THEN SetProperty(item, prop,
                          ItemValue(parseProperties(c, newItem(c), rawURL)))
                  ELSE SetProperty(item, prop,
                          StringValue(propertyValue(c, prop, rawURL), c))
             ELSE parseProperties(c, item, rawURL)

parsePropertiesFrom(cs, item, rawURL) ==
    IF cs = <<>> THEN item
    ELSE parsePropertiesFrom(Tail(cs),
            parsePropertiesChild(Head(cs), item, rawURL), rawURL)

parseProperties(n, item, rawURL) ==
    parsePropertiesFrom(Children(n), item, rawURL)

(***************************************************************************)
(* parseW3CMicrodata and W3CMicrodata                                      *)
(***************************************************************************)
RECURSIVE parseNode(_, _, _)
RECURSIVE parseNodeFrom(_, _, _)
\* parseNode without its else: the children of a scope element are walked
\* for further top-level items as well.
parseNodeNoElse(n, acc, rawURL) ==
    IF NodeType(n) = ElementNode /\ getAttr(n, "itemscope")
    THEN parseNodeFrom(Children(n),
            Append(acc, parseProperties(n, newItem(n), rawURL)), rawURL)
    ELSE parseNodeFrom(Children(n), acc, rawURL)

\* parseNode putting a new item in front of the items found so far.
parseNodePrepend(n, acc, rawURL) ==
    IF NodeType(n) = ElementNode /\ getAttr(n, "itemscope")
    THEN <<parseProperties(n, newItem(n), rawURL)>> \o acc
    ELSE parseNodeFrom(Children(n), acc, rawURL)

\* parseNode taking an element with an itemtype for the root of an item
\* as well.
parseNodeByType(n, acc, rawURL) ==
    IF NodeType(n) = ElementNode
       /\ (getAttr(n, "itemscope") \/ getAttr(n, "itemtype"))
    THEN Append(acc, parseProperties(n, newItem(n), rawURL))
    ELSE parseNodeFrom(Children(n), acc, rawURL)

\* The closure parseNode: acc is the slice `items` so far.
parseNode(n, acc, rawURL) ==
    IF NodeType(n) = ElementNode /\ getAttr(n, "itemscope")
    THEN Append(acc, parseProperties(n, newItem(n), rawURL))
    ELSE parseNodeFrom(Children(n), acc, rawURL)

parseNodeFrom(cs, acc, rawURL) ==
    IF cs = <<>> THEN acc
    ELSE parseNodeFrom(Tail(cs), parseNode(Head(cs), acc, rawURL), rawURL)

\* parseW3CMicrodata reporting a base URL that does not parse.
parseW3CMicrodataReporting(rawURL) ==
    [items  |-> parseNode(0, <<>>, rawURL),
     errors |-> IF urlParse(rawURL).err THEN <<"parse">> ELSE <<>>]

\* [items, errors]
parseW3CMicrodata(rawURL) ==
    [items |-> parseNode(0, <<>>, rawURL), errors |-> <<>>]

\* The copy loop of W3CMicrodata.
copyItem(item) ==
    [node       |-> item.node,
     Type       |-> item.Type,
     ID         |-> IF item.ID # NilID THEN item.ID ELSE NilID,
     Properties |-> item.Properties]

W3CMicrodata ==
    /\ pc = "call"
    /\ LET r == parseW3CMicrodata(URL)
       IN  /\ items' = [i \in 1..Len(r.items) |-> copyItem(r.items[i])]
           /\ errors' = r.errors
    /\ pc' = "done"
    /\ UNCHANGED <<doc, URL, extractor, last, ex, g, ld, meta, walk>>

(***************************************************************************)
(* W3CMicrodata call by call                                               *)
(*                                                                         *)
(* The same walk as above, one call, one turn of a loop or one return at a *)
(* step.  A frame of the stack is a call of parseNode, parseProperties or  *)
(* the closure f of getTextContent: n is its node, cs the children its     *)
(* loop has still to visit, fresh whether its body has not begun, item the *)
(* item a call of parseProperties fills, and prop the property its caller  *)
(* binds the result to (<<>> for none).                                    *)
(***************************************************************************)
Frame(fn, n, fresh, cs, item, prop) ==
    [fn |-> fn, n |-> n, fresh |-> fresh, cs |-> cs, item |-> item,
     prop |-> prop]

NoWalk == [stack |-> <<>>, items |-> <<>>, sb |-> <<>>, entered |-> <<>>]

\* No function has been entered with any node.
NotEntered ==
    LET none == [n \in 0..Len(doc) |-> 0]
    IN  [parseNode |-> none, parseProperties |-> none, f |-> none]

Top == walk.stack[Len(walk.stack)]

Caller == walk.stack[Len(walk.stack) - 1]

\* The stack after the top frame returned and its caller became frame.
Returned(frame) == SubSeq(walk.stack, 1, Len(walk.stack) - 2) \o <<frame>>

\* The stack after the top frame became frame and called callee.
Called(frame, callee) ==
    SubSeq(walk.stack, 1, Len(walk.stack) - 1) \o <<frame, callee>>

\* The stack with frame for its top frame.
Stepped(frame) == SubSeq(walk.stack, 1, Len(walk.stack) - 1) \o <<frame>>

\* Function fn is entered with node n.
Entered(fn, n) == [walk.entered EXCEPT ![fn][n] = @ + 1]

\* c = c.NextSibling in the loop of frame.
NextSibling(frame) == [frame EXCEPT !.cs = Tail(@)]

\* The string parseProperties binds for the non-scope property element c
\* whose text content is value.
valueOf(c, prop, rawURL, value) ==
    LET datetime == getAttrVal(c, "datetime")
        href     == getAttrVal(c, "href")
    IN  IF datetime # <<>> THEN datetime
        ELSE IF IsUrlProp(prop)
        THEN IF IsAbsoluteHref(href) THEN href
             ELSE baseURLOf(rawURL) \o href
        ELSE value

\* W3CMicrodata is called: parseW3CMicrodata calls parseNode(doc).
WalkCall ==
    /\ pc = "call"
    /\ pc' = "walk"
    /\ walk' = [stack |-> <<Frame("parseNode", 0, TRUE, <<>>, <<>>, <<>>)>>,
                items |-> <<>>,
                sb |-> <<>>,
                entered |-> [NotEntered EXCEPT !.parseNode[0] = 1]]
    /\ UNCHANGED <<doc, URL, items, errors, extractor, last, ex, g, ld,
                   meta>>

\* parseNode calling parseProperties for a scope element and walking its
\* children as well.
ParseNodeEnterNoElse ==
    /\ pc = "walk"
    /\ walk.stack # <<>>
    /\ Top.fn = "parseNode"
    /\ Top.fresh
    /\ IF NodeType(Top.n) = ElementNode /\ getAttr(Top.n, "itemscope")
       THEN walk' = [walk EXCEPT
                !.stack = Called([Top EXCEPT !.fresh = FALSE,
                                             !.cs = Children(Top.n)],
                                 Frame("parseProperties", Top.n, FALSE,
                                       Children(Top.n), newItem(Top.n),
                                       <<>>)),
                !.entered = Entered("parseProperties", Top.n)]
       ELSE walk' = [walk EXCEPT
                !.stack = Stepped([Top EXCEPT !.fresh = FALSE,
                                              !.cs = Children(Top.n)])]
    /\ UNCHANGED <<doc, URL, pc, items, errors, extractor, last, ex, g, ld,
                   meta>>

\* The body of parseNode begins: parseProperties is called for a scope
\* element, the loop over the children begins for any other node.
ParseNodeEnter ==
    /\ pc = "walk"
    /\ walk.stack # <<>>
    /\ Top.fn = "parseNode"
    /\ Top.fresh
    /\ IF NodeType(Top.n) = ElementNode /\ getAttr(Top.n, "itemscope")
       THEN walk' = [walk EXCEPT
                !.stack = Called([Top EXCEPT !.fresh = FALSE],
                                 Frame("parseProperties", Top.n, FALSE,
                                       Children(Top.n), newItem(Top.n),
                                       <<>>)),
                !.entered = Entered("parseProperties", Top.n)]
       ELSE walk' = [walk EXCEPT
                !.stack = Stepped([Top EXCEPT !.fresh = FALSE,
                                              !.cs = Children(Top.n)])]
    /\ UNCHANGED <<doc, URL, pc, items, errors, extractor, last, ex, g, ld,
                   meta>>

\* A turn of the loop of parseNode: parseNode(c).
ParseNodeChild ==
    /\ pc = "walk"
    /\ walk.stack # <<>>
    /\ Top.fn = "parseNode"
    /\ ~Top.fresh
    /\ Top.cs # <<>>
    /\ walk' = [walk EXCEPT
            !.stack = Called(NextSibling(Top),
                             Frame("parseNode", Head(Top.cs), TRUE, <<>>,
                                   <<>>, <<>>)),
            !.entered = Entered("parseNode", Head(Top.cs))]
    /\ UNCHANGED <<doc, URL, pc, items, errors, extractor, last, ex, g, ld,
                   meta>>

\* parseNode returns.
ParseNodeReturn ==
    /\ pc = "walk"
    /\ walk.stack # <<>>
    /\ Top.fn = "parseNode"
    /\ ~Top.fresh
    /\ Top.cs = <<>>
    /\ walk' = [walk EXCEPT
            !.stack = SubSeq(walk.stack, 1, Len(walk.stack) - 1)]
    /\ UNCHANGED <<doc, URL, pc, items, errors, extractor, last, ex, g, ld,
                   meta>>

\* A turn of the loop of parseProperties on the child c.
ParsePropertiesChild ==
    /\ pc = "walk"
    /\ walk.stack # <<>>
    /\ Top.fn = "parseProperties"
    /\ Top.cs # <<>>
    /\ LET c    == Head(Top.cs)
           prop == getAttrVal(c, "itemprop")
       IN  IF NodeType(c) # ElementNode
           THEN walk' = [walk EXCEPT !.stack = Stepped(NextSibling(Top))]
           ELSE IF prop # <<>> /\ getAttr(c, "itemscope")
           THEN walk' = [walk EXCEPT
                    !.stack = Called(NextSibling(Top),
                                     Frame("parseProperties", c, FALSE,
                                           Children(c), newItem(c), prop)),
                    !.entered = Entered("parseProperties", c)]
           ELSE IF prop # <<>>
           THEN walk' = [walk EXCEPT
                    !.stack = Called(NextSibling(Top),
                                     Frame("f", c, TRUE, <<>>, <<>>, prop)),
                    !.sb = <<>>,
                    !.entered = Entered("f", c)]
           ELSE walk' = [walk EXCEPT
                    !.stack = Called(NextSibling(Top),
                                     Frame("parseProperties", c, FALSE,
                                           Children(c), Top.item, <<>>)),
                    !.entered = Entered("parseProperties", c)]
    /\ UNCHANGED <<doc, URL, pc, items, errors, extractor, last, ex, g, ld,
                   meta>>

\* parseProperties returns: to parseNode, which appends the item to items;
\* to parseProperties, which binds the item of a scope element to its
\* property and otherwise goes on with the item the call filled.
ParsePropertiesReturn ==
    /\ pc = "walk"
    /\ walk.stack # <<>>
    /\ Top.fn = "parseProperties"
    /\ Top.cs = <<>>
    /\ IF Caller.fn = "parseNode"
       THEN walk' = [walk EXCEPT !.stack = Returned(Caller),
                                 !.items = Append(@, Top.item)]
       ELSE IF Top.prop # <<>>
       THEN walk' = [walk EXCEPT
                !.stack = Returned([Caller EXCEPT !.item =
                              SetProperty(@, Top.prop,
                                          ItemValue(Top.item))])]
       ELSE walk' = [walk EXCEPT
                !.stack = Returned([Caller EXCEPT !.item = Top.item])]
    /\ UNCHANGED <<doc, URL, pc, items, errors, extractor, last, ex, g, ld,
                   meta>>

\* The body of the closure f begins: the text or the value attribute of
\* the node goes to the builder.
TextEnter ==
    /\ pc = "walk"
    /\ walk.stack # <<>>
    /\ Top.fn = "f"
    /\ Top.fresh
    /\ walk' = [walk EXCEPT
            !.stack = Stepped([Top EXCEPT !.fresh = FALSE,
                                          !.cs = Children(Top.n)]),
            !.sb = IF NodeType(Top.n) = TextNode
                   THEN (IF @ = <<>> THEN @ \o doc[Top.n].Data ELSE @)
                   ELSE IF NodeType(Top.n) = ElementNode
                   THEN @ \o valueAttr(Top.n)
                   ELSE @]
    /\ UNCHANGED <<doc, URL, pc, items, errors, extractor, last, ex, g, ld,
                   meta>>

\* A turn of the loop of f: f(c).
TextChild ==
    /\ pc = "walk"
    /\ walk.stack # <<>>
    /\ Top.fn = "f"
    /\ ~Top.fresh
    /\ Top.cs # <<>>
    /\ walk' = [walk EXCEPT
            !.stack = Called(NextSibling(Top),
                             Frame("f", Head(Top.cs), TRUE, <<>>, <<>>,
                                   <<>>)),
            !.entered = Entered("f", Head(Top.cs))]
    /\ UNCHANGED <<doc, URL, pc, items, errors, extractor, last, ex, g, ld,
                   meta>>

\* f returns: to f, or to getTextContent and parseProperties, which binds
\* the value of the property.
TextReturn ==
    /\ pc = "walk"
    /\ walk.stack # <<>>
    /\ Top.fn = "f"
    /\ ~Top.fresh
    /\ Top.cs = <<>>
    /\ IF Caller.fn = "parseProperties"
       THEN walk' = [walk EXCEPT
                !.stack = Returned([Caller EXCEPT !.item =
                              SetProperty(@, Top.prop,
                                  StringValue(valueOf(Top.n, Top.prop, URL,
                                                  TrimSpace(walk.sb)),
                                              Top.n))])]
       ELSE walk' = [walk EXCEPT !.stack = Returned(Caller)]
    /\ UNCHANGED <<doc, URL, pc, items, errors, extractor, last, ex, g, ld,
                   meta>>

\* parseNode(doc) has returned: parseW3CMicrodata returns, W3CMicrodata
\* copies the items and returns.
WalkReturn ==
    /\ pc = "walk"
    /\ walk.stack = <<>>
    /\ items' = [i \in 1..Len(walk.items) |-> copyItem(walk.items[i])]
    /\ errors' = <<>>
    /\ pc' = "done"
    /\ UNCHANGED <<doc, URL, walk, extractor, last, ex, g, ld, meta>>

NextWalk ==
    \/ WalkCall
    \/ ParseNodeEnter
    \/ ParseNodeChild
    \/ ParseNodeReturn
    \/ ParsePropertiesChild
    \/ ParsePropertiesReturn
    \/ TextEnter
    \/ TextChild
    \/ TextReturn
    \/ WalkReturn

(***************************************************************************)
(* The Extractor (extract.go)                                              *)
(***************************************************************************)
\* Largest length of the argument of SetSyntaxes.
MaxArgLen == 2

\* Largest number of errors one processor returns.
MaxProcErrors == 2

SYNTAXES == <<"opengraph", "xcards", "json-ld", "microdata">>

contains(s, v) == \E i \in 1..Len(s) : s[i] = v

DefaultUserAgent ==
    "go-microdata-extract (+https://github.com/aafeher/go-microdata-extract/blob/main/README.md)"

setConfigDefaults ==
    [syntaxes     |-> SYNTAXES,
     userAgent    |-> DefaultUserAgent,
     fetchTimeout |-> 3]

New ==
    [cfg       |-> setConfigDefaults,
     url       |-> "",
     content   |-> "",
     extracted |-> EmptyMap,
     errs      |-> <<>>]

NoCall == [op |-> "New", arg |-> <<>>, err |-> <<>>]

NoExtract ==
    [pc |-> "idle", processors |-> <<>>, i |-> 0, mu |-> 0, wg |-> 0]

\* A new Extractor on which nothing has been called.
ExtractorIdle ==
    /\ extractor = New
    /\ last = NoCall
    /\ ex = NoExtract
    /\ g = <<>>

NoJSONLD ==
    [pc |-> "idle", matches |-> <<>>, results |-> <<>>, errors |-> <<>>]

\* JSONLD is not run by itself.
JSONLDIdle == ld = NoJSONLD

NoMeta ==
    [pc |-> "idle", call |-> "", page |-> <<>>, i |-> 0, xc |-> <<>>,
     xcHasValue |-> FALSE, og |-> <<>>, ogHasValue |-> FALSE,
     results |-> <<>>, errors |-> <<>>]

\* ParseOpenGraph and ParseXCards are not run by themselves.
MetaIdle == meta = NoMeta

\* The walker is not run by itself.
WalkerIdle ==
    /\ doc = <<>>
    /\ URL = <<>>
    /\ pc = "idle"
    /\ items = <<>>
    /\ errors = <<>>
    /\ walk = NoWalk

\* The syntaxes a caller passes: the supported ones and one that is not.
AnySyntax == { SYNTAXES[i] : i \in 1..Len(SYNTAXES) } \cup { "rdfa" }

SyntaxArgs == UNION { [1..n -> AnySyntax] : n \in 0..MaxArgLen }

UserAgents == { DefaultUserAgent, "", "ua" }

\* uint8 values.
FetchTimeouts == { 0, 3, 255 }

\* SetSyntaxes assigning the filtered list even when it is empty.
setSyntaxesAlways(x, syntaxes) ==
    IF Len(syntaxes) = 0 THEN x
    ELSE [x EXCEPT !.cfg.syntaxes =
              SelectSeq(syntaxes, LAMBDA s : contains(SYNTAXES, s))]

\* The Extractor x after x.SetSyntaxes(syntaxes).
setSyntaxes(x, syntaxes) ==
    IF Len(syntaxes) = 0 THEN x
    ELSE LET syntaxesToSet ==
                 SelectSeq(syntaxes, LAMBDA s : contains(SYNTAXES, s))
         IN  IF Len(syntaxesToSet) = 0 THEN x
             ELSE [x EXCEPT !.cfg.syntaxes = syntaxesToSet]

SetSyntaxes ==
    /\ ex.pc = "idle"
    /\ \E syntaxes \in SyntaxArgs :
           /\ extractor' = setSyntaxes(extractor, syntaxes)
           /\ last' = [op |-> "SetSyntaxes", arg |-> syntaxes, err |-> <<>>]
    /\ UNCHANGED <<walker, ld, meta, ex, g>>

SetUserAgent ==
    /\ ex.pc = "idle"
    /\ \E userAgent \in UserAgents :
           /\ extractor' = [extractor EXCEPT !.cfg.userAgent = userAgent]
           /\ last' = [op |-> "SetUserAgent", arg |-> <<userAgent>>,
                       err |-> <<>>]
    /\ UNCHANGED <<walker, ld, meta, ex, g>>

SetFetchTimeout ==
    /\ ex.pc = "idle"
    /\ \E fetchTimeout \in FetchTimeouts :
           /\ extractor' = [extractor EXCEPT !.cfg.fetchTimeout = fetchTimeout]
           /\ last' = [op |-> "SetFetchTimeout", arg |-> <<fetchTimeout>>,
                       err |-> <<>>]
    /\ UNCHANGED <<walker, ld, meta, ex, g>>

\* What a fetch of the URL comes to: the body is read, http.NewRequest
\* fails, client.Do fails, the status is not 200, or io.Copy fails.
FetchOutcomes == { "ok", "request", "do", "status", "copy" }

FetchError(outcome) == [src |-> "fetch", k |-> outcome]

\* [body, err] of fetch; err is <<>> for nil.
fetch(outcome) ==
    IF outcome = "ok" THEN [body |-> "b", err |-> <<>>]
    ELSE [body |-> "", err |-> <<FetchError(outcome)>>]

\* [content, err] of setContent; urlContent is <<>> for nil.
setContent(urlContent, outcome) ==
    IF urlContent # <<>> THEN [content |-> urlContent[1], err |-> <<>>]
    ELSE LET r == fetch(outcome)
         IN  IF r.err # <<>> THEN [content |-> "", err |-> r.err]
             ELSE [content |-> r.body, err |-> <<>>]

\* The processors Extract builds for the configured syntaxes.
Processors(syntaxes) ==
    (IF contains(syntaxes, "opengraph") THEN <<"opengraph">> ELSE <<>>)
    \o (IF contains(syntaxes, "xcards") THEN <<"xcards">> ELSE <<>>)
    \o (IF contains(syntaxes, "json-ld") THEN <<"json-ld">> ELSE <<>>)
    \o (IF contains(syntaxes, "microdata") THEN <<"microdata">> ELSE <<>>)

\* What the caller passes for urlContent and what a fetch would come to.
ExtractArgs ==
    { <<"content">> } \cup { <<"nil", o>> : o \in FetchOutcomes }

\* Extract starting from an empty extracted map.
ExtractCallFresh ==
    /\ ex.pc = "idle"
    /\ \E arg \in ExtractArgs :
         LET r  == IF arg[1] = "content" THEN setContent(<<"c">>, "ok")
                   ELSE setContent(<<>>, arg[2])
             e1 == [extractor EXCEPT !.url = "u", !.content = r.content,
                                     !.extracted = EmptyMap]
             ps == Processors(e1.cfg.syntaxes)
         IN  IF r.err # <<>>
             THEN /\ extractor' = [e1 EXCEPT !.errs = Append(@, r.err[1])]
                  /\ ex' = [ex EXCEPT !.pc = "returned"]
                  /\ g' = g
                  /\ last' = [op |-> "Extract", arg |-> arg, err |-> r.err]
             ELSE /\ extractor' = e1
                  /\ ex' = [pc |-> "launch", processors |-> ps, i |-> 0,
                            mu |-> 0, wg |-> 0]
                  /\ g' = [k \in 1..Len(ps) |->
                              [pc |-> "idle", extracted |-> "nil",
                               errorsExtracted |-> <<>>, errs |-> <<>>]]
                  /\ last' = [op |-> "Extract", arg |-> arg, err |-> <<>>]
    /\ UNCHANGED <<walker, ld, meta>>

\* Extract going on to the processors after a fetch that failed.
ExtractCallNoReturn ==
    /\ ex.pc = "idle"
    /\ \E arg \in ExtractArgs :
         LET r  == IF arg[1] = "content" THEN setContent(<<"c">>, "ok")
                   ELSE setContent(<<>>, arg[2])
             e1 == [extractor EXCEPT !.url = "u", !.content = r.content]
             ps == Processors(e1.cfg.syntaxes)
         IN  /\ extractor' = IF r.err # <<>>
                     THEN [e1 EXCEPT !.errs = Append(@, r.err[1])]
                     ELSE e1
             /\ ex' = [pc |-> "launch", processors |-> ps, i |-> 0,
                       mu |-> 0, wg |-> 0]
             /\ g' = [k \in 1..Len(ps) |->
                         [pc |-> "idle", extracted |-> "nil",
                          errorsExtracted |-> <<>>, errs |-> <<>>]]
             /\ last' = [op |-> "Extract", arg |-> arg, err |-> r.err]
    /\ UNCHANGED <<walker, ld, meta>>

\* Extract up to its launch loop: lines 126-166.
ExtractCall ==
    /\ ex.pc = "idle"
    /\ \E arg \in ExtractArgs :
         LET r  == IF arg[1] = "content" THEN setContent(<<"c">>, "ok")
                   ELSE setContent(<<>>, arg[2])
             e1 == [extractor EXCEPT !.url = "u", !.content = r.content]
             ps == Processors(e1.cfg.syntaxes)
         IN  IF r.err # <<>>
             THEN /\ extractor' = [e1 EXCEPT !.errs = Append(@, r.err[1])]
                  /\ ex' = [ex EXCEPT !.pc = "returned"]
                  /\ g' = g
                  /\ last' = [op |-> "Extract", arg |-> arg, err |-> r.err]
             ELSE /\ extractor' = e1
                  /\ ex' = [pc |-> "launch", processors |-> ps, i |-> 0,
                            mu |-> 0, wg |-> 0]
                  /\ g' = [k \in 1..Len(ps) |->
                              [pc |-> "idle", extracted |-> "nil",
                               errorsExtracted |-> <<>>, errs |-> <<>>]]
                  /\ last' = [op |-> "Extract", arg |-> arg, err |-> <<>>]
    /\ UNCHANGED <<walker, ld, meta>>

\* One turn of the launch loop: wg.Add(1) and the go statement.
Launch ==
    /\ ex.pc = "launch"
    /\ ex.i < Len(ex.processors)
    /\ ex' = [ex EXCEPT !.i = @ + 1, !.wg = @ + 1]
    /\ g' = [g EXCEPT ![ex.i + 1].pc = "func"]
    /\ UNCHANGED <<walker, ld, meta, extractor, last>>

\* What proc.Func() returns: a value that is nil or not, and errors.
ProcResults ==
    { [extracted |-> v, n |-> 0] : v \in { "nil", "found" } }
    \cup { [extracted |-> "found", n |-> n] : n \in 1..MaxProcErrors }

ProcError(name, k) == [src |-> name, k |-> k]

\* extracted, errorsExtracted := proc.Func()
Func(k) ==
    /\ g[k].pc = "func"
    /\ \E r \in ProcResults :
           g' = [g EXCEPT ![k] =
                    [pc |-> "lock", extracted |-> r.extracted,
                     errorsExtracted |->
                         [j \in 1..r.n |->
                             ProcError(ex.processors[k], j)],
                     errs |-> <<>>]]
    /\ UNCHANGED <<walker, ld, meta, extractor, last, ex>>

\* A lock that never blocks: the goroutine goes on whoever holds mu.
LockNoMutex(k) ==
    /\ g[k].pc = "lock"
    /\ ex' = [ex EXCEPT !.mu = k]
    /\ g' = [g EXCEPT ![k].pc = "read"]
    /\ UNCHANGED <<walker, ld, meta, extractor, last>>

\* mu.Lock()
Lock(k) ==
    /\ g[k].pc = "lock"
    /\ ex.mu = 0
    /\ ex' = [ex EXCEPT !.mu = k]
    /\ g' = [g EXCEPT ![k].pc = "read"]
    /\ UNCHANGED <<walker, ld, meta, extractor, last>>

\* The read of e.errs by append(e.errs, errorsExtracted...).
ReadErrs(k) ==
    /\ g[k].pc = "read"
    /\ g' = [g EXCEPT ![k].pc = "append", ![k].errs = extractor.errs]
    /\ UNCHANGED <<walker, ld, meta, extractor, last, ex>>

\* e.errs = append(e.errs, errorsExtracted...): the assignment of the
\* slice that was read, extended by the errors of the processor.
AppendErrs(k) ==
    /\ g[k].pc = "append"
    /\ extractor' = [extractor EXCEPT
                         !.errs = g[k].errs \o g[k].errorsExtracted]
    /\ g' = [g EXCEPT ![k].pc = "store"]
    /\ UNCHANGED <<walker, ld, meta, last, ex>>

\* e.extracted[proc.Name] = extracted
Store(k) ==
    /\ g[k].pc = "store"
    /\ extractor' = [extractor EXCEPT !.extracted =
                 MapSet(@, ex.processors[k], g[k].extracted)]
    /\ g' = [g EXCEPT ![k].pc = "return"]
    /\ UNCHANGED <<walker, ld, meta, last, ex>>

\* The deferred calls of the goroutine: mu.Unlock(), then wg.Done().
Return(k) ==
    /\ g[k].pc = "return"
    /\ ex' = [ex EXCEPT !.mu = 0, !.wg = @ - 1]
    /\ g' = [g EXCEPT ![k].pc = "done"]
    /\ UNCHANGED <<walker, ld, meta, extractor, last>>

\* wg.Wait() returning whatever the counter is.
WaitAnyCounter ==
    /\ ex.pc = "launch"
    /\ ex.i = Len(ex.processors)
    /\ ex' = [ex EXCEPT !.pc = "returned"]
    /\ UNCHANGED <<walker, ld, meta, extractor, last, g>>

\* wg.Wait() after the launch loop, and return e, nil.
Wait ==
    /\ ex.pc = "launch"
    /\ ex.i = Len(ex.processors)
    /\ ex.wg = 0
    /\ ex' = [ex EXCEPT !.pc = "returned"]
    /\ UNCHANGED <<walker, ld, meta, extractor, last, g>>

InitExtractor == WalkerIdle /\ ExtractorIdle /\ JSONLDIdle /\ MetaIdle

NextConfig == SetSyntaxes \/ SetUserAgent \/ SetFetchTimeout

\* New, then any sequence of configuration calls.
SpecConfig == InitExtractor /\ [][NextConfig]_vars

NextExtract ==
    \/ SetSyntaxes
    \/ ExtractCall
    \/ Launch
    \/ \E k \in DOMAIN g :
           \/ Func(k) \/ Lock(k) \/ ReadErrs(k)
           \/ AppendErrs(k) \/ Store(k) \/ Return(k)
    \/ Wait

\* New, any sequence of SetSyntaxes calls, then one Extract.
SpecExtract == InitExtractor /\ [][NextExtract]_vars

\* An Extractor after an Extract that ran the four default processors on
\* supplied content, two of which found nothing and two of which returned
\* an error, and the call that left it so.
UsedAllSyntaxes ==
    [extractor |->
         [New EXCEPT !.url = "u", !.content = "c",
                     !.extracted =
                         [s \in { "opengraph", "xcards", "json-ld",
                                  "microdata" } |->
                             IF s \in { "opengraph", "json-ld" }
                             THEN "found" ELSE "nil"],
                     !.errs = <<ProcError("json-ld", 1),
                                ProcError("opengraph", 1)>>],
     last |-> [op |-> "Extract", arg |-> <<"content">>, err |-> <<>>]]

\* An Extractor after an Extract whose fetch got a status other than 200.
UsedFetchFailed ==
    [extractor |->
         [New EXCEPT !.url = "u", !.errs = <<FetchError("status")>>],
     last |-> [op |-> "Extract", arg |-> <<"nil", "status">>,
               err |-> <<FetchError("status")>>]]

\* An Extractor after SetSyntaxes("microdata") and an Extract on supplied
\* content whose processor found an item and returned no error.
UsedOneSyntax ==
    [extractor |->
         [New EXCEPT !.cfg.syntaxes = <<"microdata">>,
                     !.url = "u", !.content = "c",
                     !.extracted = [s \in { "microdata" } |-> "found"]],
     last |-> [op |-> "Extract", arg |-> <<"content">>, err |-> <<>>]]

UsedExtractors == { UsedAllSyntaxes, UsedFetchFailed, UsedOneSyntax }

\* An Extractor on which Extract has returned, before the next call.
InitReuse ==
    /\ WalkerIdle
    /\ JSONLDIdle
    /\ MetaIdle
    /\ \E u \in UsedExtractors :
           /\ extractor = u.extractor
           /\ last = u.last
    /\ ex = NoExtract
    /\ g = <<>>

\* Any sequence of SetSyntaxes calls and one more Extract on an Extractor
\* that has been used.
SpecReuse == InitReuse /\ [][NextExtract]_vars

(***************************************************************************)
(* GetExtracted, GetExtractedJSON                                          *)
(*                                                                         *)
(* The values an extracted map holds here are the nil interface, a Go      *)
(* string and a struct with a channel field, which encoding/json cannot    *)
(* encode; the strings need no escaping.  A map that was never made is     *)
(* NilMap.  A json.RawMessage is <<>> when nil and <<text>> otherwise.     *)
(***************************************************************************)
\* Largest number of errors an Extractor holds before GetExtractedJSON is
\* called once more.
MaxErrs == 3

NilMap == [tag |-> "nilmap"]

GoString(s) == [tag |-> "string", s |-> s]

ChanStruct == [tag |-> "struct", Channel |-> "chan int", Name |-> "John"]

UnsupportedTypeError == [src |-> "json", k |-> "unsupported type: chan int"]

\* The keys a map is given, in the order encoding/json sorts them.
JSONKeys == <<"key1", "key2">>

\* The keys of m in sorted order.
sortedKeys(m) == SelectSeq(JSONKeys, LAMBDA k : k \in DOMAIN m)

\* The encoding of one value: [text, err].
encodeValue(v) ==
    IF v = Nil THEN [text |-> "null", err |-> <<>>]
    ELSE IF v.tag = "string"
    THEN [text |-> "\"" \o v.s \o "\"", err |-> <<>>]
    ELSE [text |-> "", err |-> <<UnsupportedTypeError>>]

\* The members of m at the keys ks[i..], indented by two spaces, one a
\* line.
RECURSIVE encodeMembers(_, _, _)
encodeMembers(m, ks, i) ==
    IF i > Len(ks) THEN ""
    ELSE "\n  \"" \o ks[i] \o "\": " \o encodeValue(m[ks[i]]).text
         \o (IF i < Len(ks) THEN "," ELSE "")
         \o encodeMembers(m, ks, i + 1)

\* json.MarshalIndent skipping the values it cannot encode.
MarshalIndentSkipping(m) ==
    IF m = NilMap THEN [json |-> <<"null">>, err |-> <<>>]
    ELSE LET ks == SelectSeq(sortedKeys(m),
                             LAMBDA k : encodeValue(m[k]).err = <<>>)
         IN  IF ks = <<>> THEN [json |-> <<"{}">>, err |-> <<>>]
             ELSE [json |-> <<"{" \o encodeMembers(m, ks, 1) \o "\n}">>,
                   err |-> <<>>]

\* json.MarshalIndent(m, "", "  "): [json, err].
MarshalIndent(m) ==
    IF m = NilMap THEN [json |-> <<"null">>, err |-> <<>>]
    ELSE LET ks  == sortedKeys(m)
             bad == SelectSeq(ks, LAMBDA k : encodeValue(m[k]).err # <<>>)
         IN  IF bad # <<>>
             THEN [json |-> <<>>, err |-> encodeValue(m[bad[1]]).err]
             ELSE IF ks = <<>> THEN [json |-> <<"{}">>, err |-> <<>>]
             ELSE [json |-> <<"{" \o encodeMembers(m, ks, 1) \o "\n}">>,
                   err |-> <<>>]

GetExtracted ==
    /\ ex.pc = "idle"
    /\ last.op # "GetExtracted"
    /\ last' = [op |-> "GetExtracted", arg |-> <<>>, err |-> <<>>,
                ret |-> extractor.extracted]
    /\ UNCHANGED <<walker, ld, meta, extractor, ex, g>>

GetExtractedJSON ==
    /\ ex.pc = "idle"
    /\ Len(extractor.errs) < MaxErrs
    /\ LET r == MarshalIndent(extractor.extracted)
       IN  /\ extractor' =
                  IF r.err # <<>>
                  THEN [extractor EXCEPT !.errs = Append(@, r.err[1])]
                  ELSE extractor
           /\ last' = [op |-> "GetExtractedJSON", arg |-> <<>>,
                       err |-> <<>>, ret |-> r.json]
    /\ UNCHANGED <<walker, ld, meta, ex, g>>

\* The values of an extracted map.
JSONValues == { Nil, GoString("value1"), GoString("value2"), ChanStruct }

\* The extracted maps: the one never made, and every map over JSONKeys.
ExtractedMaps ==
    { NilMap }
    \cup UNION { [ks -> JSONValues] :
                   ks \in SUBSET { JSONKeys[i] : i \in 1..Len(JSONKeys) } }

\* An Extractor literal with an extracted map, with or without an error
\* of an earlier call.
InitGetExtracted ==
    /\ WalkerIdle
    /\ JSONLDIdle
    /\ MetaIdle
    /\ \E m \in ExtractedMaps, errs \in { <<>>, <<FetchError("status")>> } :
           extractor = [cfg       |-> [syntaxes |-> <<>>, userAgent |-> "",
                                       fetchTimeout |-> 0],
                        url       |-> "",
                        content   |-> "",
                        extracted |-> m,
                        errs      |-> errs]
    /\ last = NoCall
    /\ ex = NoExtract
    /\ g = <<>>

NextGetExtracted == GetExtracted \/ GetExtractedJSON

SpecGetExtracted == InitGetExtracted /\ [][NextGetExtracted]_vars

(***************************************************************************)
(* OpenGraph and X Cards (extractors/opengraph.go, extractors/xcards.go)   *)
(*                                                                         *)
(* A page is the sequence of the tokens the html tokenizer yields for it.  *)
(* Properties and contents are strings.  A Go pointer is <<>> when nil and *)
(* <<v>> otherwise; a nil slice is <<>>.  The index of the last entry of a *)
(* list is counted from 1, so that Go's -1 is 0.                           *)
(***************************************************************************)
\* Largest number of tokens of a page.
MaxTags == 3

\* strings.Split(s, ":"): cur is the part read so far.
RECURSIVE SplitFrom(_, _)
SplitFrom(s, cur) ==
    IF s = "" THEN <<cur>>
    ELSE IF Head(s) = ":" THEN <<cur>> \o SplitFrom(Tail(s), "")
    ELSE SplitFrom(Tail(s), cur \o Head(s))

Split(s) == SplitFrom(s, "")

DecimalDigits == <<"0", "1", "2", "3", "4", "5", "6", "7", "8", "9">>

isDigit(s, i) ==
    i <= Len(s) /\ \E d \in 1..10 : SubSeq(s, i, i) = DecimalDigits[d]

digitValue(ch) == (CHOOSE d \in 1..10 : DecimalDigits[d] = ch) - 1

\* The number of decimal digits s[i..] begins with.
RECURSIVE countDigits(_, _)
countDigits(s, i) ==
    IF isDigit(s, i) THEN 1 + countDigits(s, i + 1) ELSE 0

\* The value of the decimal digits s[i..j], given the value acc of the
\* digits before them.
RECURSIVE atoiFrom(_, _, _, _)
atoiFrom(s, i, j, acc) ==
    IF i > j THEN acc
    ELSE atoiFrom(s, i + 1, j, 10 * acc + digitValue(SubSeq(s, i, i)))

atoi(s, i, j) == atoiFrom(s, i, j, 0)

\* The blanks fmt.Sscanf skips before a number: spaces and tabs, not a
\* line feed.
RECURSIVE skipBlanks(_, _)
skipBlanks(s, i) ==
    IF i <= Len(s) /\ SubSeq(s, i, i) \in { " ", "\t" }
    THEN skipBlanks(s, i + 1)
    ELSE i

\* parseIntSafely returning -1 for a content that holds no number.
parseIntSentinel(s) ==
    LET i == skipBlanks(s, 1)
        j == IF i <= Len(s) /\ SubSeq(s, i, i) \in { "+", "-" }
             THEN i + 1 ELSE i
        n == countDigits(s, j)
    IN  IF n = 0 THEN 0 - 1
        ELSE IF j > i /\ SubSeq(s, i, i) = "-" THEN 0 - atoi(s, j, j + n - 1)
        ELSE atoi(s, j, j + n - 1)

\* parseIntSafely: fmt.Sscanf(s, "%d", &result), 0 on an error.  The verb
\* skips blanks, takes a sign and the decimal digits that follow, and
\* leaves the rest of the input unread.  The contents of the model are too
\* short to overflow an int.
parseIntSafely(s) ==
    LET i == skipBlanks(s, 1)
        j == IF i <= Len(s) /\ SubSeq(s, i, i) \in { "+", "-" }
             THEN i + 1 ELSE i
        n == countDigits(s, j)
    IN  IF n = 0 THEN 0
        ELSE IF j > i /\ SubSeq(s, i, i) = "-" THEN 0 - atoi(s, j, j + n - 1)
        ELSE atoi(s, j, j + n - 1)

\* time.Time{}: the zero time, in UTC.  loc is the location pointer of the
\* value: "nil" for UTC, "set" for any other location.
ZeroTime ==
    [year |-> 1, month |-> 1, day |-> 1, hour |-> 0, min |-> 0, sec |-> 0,
     frac |-> "", offset |-> 0, loc |-> "nil"]

isLeap(year) == year % 4 = 0 /\ (year % 100 # 0 \/ year % 400 = 0)

daysIn(month, year) ==
    IF month = 2 THEN (IF isLeap(year) THEN 29 ELSE 28)
    ELSE IF month \in { 4, 6, 9, 11 } THEN 30
    ELSE 31

\* getnum of package time: a number of two digits, or of one digit when
\* the width is not fixed: [ok, n, len].
getnum(s, fixed) ==
    IF ~isDigit(s, 1) THEN [ok |-> FALSE, n |-> 0, len |-> 0]
    ELSE IF ~isDigit(s, 2)
    THEN (IF fixed THEN [ok |-> FALSE, n |-> 0, len |-> 0]
          ELSE [ok |-> TRUE, n |-> atoi(s, 1, 1), len |-> 1])
    ELSE [ok |-> TRUE, n |-> atoi(s, 1, 2), len |-> 2]

Drop(s, n) == SubSeq(s, n + 1, Len(s))

TimeFail(st) == [st EXCEPT !.ok = FALSE]

\* The field f of the layout set to the number r read off the value; the
\* number is to be below limit.
setField(st, f, limit, r) ==
    IF ~r.ok \/ r.n >= limit THEN TimeFail(st)
    ELSE [st EXCEPT !.v = Drop(st.v, r.len), !.t[f] = r.n]

\* A two-digit field f of the layout with the values below limit.
numField(st, f, fixed, limit) ==
    setField(st, f, limit, getnum(st.v, fixed))

\* The month is not 0.
monthField(st, r) == IF r.ok /\ r.t.month = 0 THEN TimeFail(st) ELSE r

\* The fractional second Parse accepts after the seconds field.
fraction(st) ==
    IF /\ Len(st.v) >= 2
       /\ SubSeq(st.v, 1, 1) \in { ".", "," }
       /\ isDigit(st.v, 2)
    THEN LET n == countDigits(st.v, 2)
         IN  [st EXCEPT !.v = Drop(st.v, n + 1),
                        !.t.frac = SubSeq(st.v, 2, n + 1)]
    ELSE st

\* The zone of the layout elements Z07:00 (colon) and Z0700: a Z for UTC,
\* or a sign, two digits of hours and two of minutes.
zoneOffset(st, colon, w, hh, mm) ==
    LET v   == st.v
        off == (hh.n * 60 + mm.n) * 60
    IN  IF HasPrefix(v, "Z") THEN [st EXCEPT !.v = Drop(v, 1)]
        ELSE IF Len(v) < w THEN TimeFail(st)
        ELSE IF colon /\ SubSeq(v, 4, 4) # ":" THEN TimeFail(st)
        ELSE IF ~hh.ok \/ ~mm.ok \/ hh.n > 24 \/ mm.n > 60
        THEN TimeFail(st)
        ELSE IF SubSeq(v, 1, 1) = "+"
        THEN [st EXCEPT !.v = Drop(v, w), !.t.offset = off,
                        !.t.loc = "set"]
        ELSE IF SubSeq(v, 1, 1) = "-"
        THEN [st EXCEPT !.v = Drop(v, w), !.t.offset = 0 - off,
                        !.t.loc = "set"]
        ELSE TimeFail(st)

zone(st, colon) ==
    LET w == IF colon THEN 6 ELSE 5
    IN  zoneOffset(st, colon, w, getnum(SubSeq(st.v, 2, 3), TRUE),
                   getnum(SubSeq(st.v, w - 1, w), TRUE))

\* One element of a layout applied to what is left of the value.
parseElement(el, st) ==
    IF ~st.ok THEN st
    ELSE IF el = "2006"
    THEN (IF Len(st.v) >= 4 /\ countDigits(st.v, 1) >= 4
          THEN [st EXCEPT !.v = Drop(st.v, 4),
                          !.t.year = atoi(st.v, 1, 4)]
          ELSE TimeFail(st))
    ELSE IF el = "01"
    THEN monthField(st, numField(st, "month", TRUE, 13))
    ELSE IF el = "02" THEN numField(st, "day", TRUE, 100)
    ELSE IF el = "15" THEN numField(st, "hour", FALSE, 24)
    ELSE IF el = "04" THEN numField(st, "min", TRUE, 60)
    ELSE IF el = "05" THEN fraction(numField(st, "sec", TRUE, 60))
    ELSE IF el = "Z07:00" THEN zone(st, TRUE)
    ELSE IF el = "Z0700" THEN zone(st, FALSE)
    ELSE IF HasPrefix(st.v, el) THEN [st EXCEPT !.v = Drop(st.v, Len(el))]
    ELSE TimeFail(st)

RECURSIVE parseElements(_, _, _)
parseElements(layout, i, st) ==
    IF i > Len(layout) THEN st
    ELSE parseElements(layout, i + 1, parseElement(layout[i], st))

\* The end of time.Parse: nothing is left of the value and the day is one
\* of the month.
parsed(st) ==
    IF /\ st.ok
       /\ st.v = ""
       /\ st.t.day >= 1
       /\ st.t.day <= daysIn(st.t.month, st.t.year)
    THEN [ok |-> TRUE, t |-> st.t]
    ELSE [ok |-> FALSE, t |-> ZeroTime]

\* time.Parse(layout, value): [ok, t].
timeParse(layout, value) ==
    parsed(parseElements(layout, 1,
                         [ok |-> TRUE, v |-> value, t |-> ZeroTime]))

DateLayout == <<"2006", "-", "01", "-", "02">>

ClockLayout == DateLayout \o <<"T", "15", ":", "04", ":", "05">>

\* time.RFC3339, "2006-01-02T15:04:05Z0700", "2006-01-02T15:04:05" and
\* "2006-01-02".
TimeFormats ==
    << ClockLayout \o <<"Z07:00">>,
       ClockLayout \o <<"Z0700">>,
       ClockLayout,
       DateLayout >>

\* The time r of a format that parses, otherwise what the next formats
\* give.
timeOr(r, next) == IF r.ok THEN r.t ELSE next

RECURSIVE parseTimeFrom(_, _)
parseTimeFrom(s, i) ==
    IF i > Len(TimeFormats) THEN ZeroTime
    ELSE timeOr(timeParse(TimeFormats[i], s), parseTimeFrom(s, i + 1))

\* parseTimeSafely: the time of the first format that parses s, the zero
\* time when none does.
parseTimeSafely(s) == parseTimeFrom(s, 1)

\* The zero values of the structs.
ZeroImage ==
    [URL |-> "", SecureURL |-> "", Type |-> "", Width |-> 0, Height |-> 0,
     Alt |-> ""]

ZeroVideoMedia ==
    [URL |-> "", SecureURL |-> "", Type |-> "", Width |-> 0, Height |-> 0]

ZeroAudio == [URL |-> "", SecureURL |-> "", Type |-> ""]

ZeroMusicSong == [URL |-> "", Disc |-> 0, Track |-> 0]

ZeroVideoActor == [URL |-> "", Role |-> ""]

ZeroMusic ==
    [Duration |-> 0, Album |-> "", AlbumDisc |-> 0, AlbumTrack |-> 0,
     Musician |-> <<>>, Song |-> <<>>, Creator |-> <<>>,
     ReleaseDate |-> ""]

ZeroVideo ==
    [Duration |-> 0, Actor |-> <<>>, Director |-> <<>>, Writer |-> <<>>,
     ReleaseDate |-> ZeroTime, Tag |-> <<>>, Series |-> ""]

ZeroArticle ==
    [PublishedTime |-> ZeroTime, ModifiedTime |-> ZeroTime,
     ExpirationTime |-> ZeroTime, Author |-> <<>>, Section |-> "",
     Tag |-> <<>>]

ZeroBook ==
    [Author |-> <<>>, ISBN |-> "", ReleaseDate |-> ZeroTime, Tag |-> <<>>]

ZeroProfile ==
    [FirstName |-> "", LastName |-> "", Username |-> "", Gender |-> ""]

NewOpenGraph ==
    [Type |-> "", Title |-> "", URL |-> "", Description |-> "",
     Determiner |-> "", Locale |-> "", LocaleAlternate |-> <<>>,
     SiteName |-> "", OpenGraphImage |-> <<>>, OpenGraphVideo |-> <<>>,
     OpenGraphAudio |-> <<>>, Music |-> <<>>, Video |-> <<>>,
     Article |-> <<>>, Book |-> <<>>, Profile |-> <<>>]

NewXCards ==
    [Card |-> "", Site |-> "", Creator |-> "", Type |-> "", Title |-> "",
     URL |-> "", Description |-> "", Determiner |-> "", Locale |-> "",
     LocaleAlternate |-> <<>>, SiteName |-> "", OpenGraphImage |-> <<>>,
     OpenGraphAudio |-> <<>>, OpenGraphVideo |-> <<>>,
     XCardsImage |-> <<>>, XCardsAudio |-> <<>>, XCardsVideo |-> <<>>,
     Music |-> <<>>, Video |-> <<>>, Article |-> <<>>, Book |-> <<>>,
     Profile |-> <<>>]

\* What a step of the parsers comes to: the struct it worked on, or a
\* run-time panic.
Went(v) == [panic |-> FALSE, v |-> v]

Panicked(v) == [panic |-> TRUE, v |-> v]

\* The third part of a property and the field of an entry it sets.
ImageFields ==
    [secure_url |-> "SecureURL", type |-> "Type", width |-> "Width",
     height |-> "Height", alt |-> "Alt"]

VideoMediaFields ==
    [secure_url |-> "SecureURL", type |-> "Type", width |-> "Width",
     height |-> "Height"]

AudioFields == [secure_url |-> "SecureURL", type |-> "Type"]

MusicSongFields == [disc |-> "Disc", track |-> "Track"]

VideoActorFields == [role |-> "Role"]

\* The fields of an entry that hold an int.
IntFields == { "Width", "Height", "Disc", "Track" }

\* The body the five handlers of structured properties share: entries is
\* the list, base the second part of the base property, zero a new entry,
\* fields the sub-properties.  An index into an empty list panics.
handleEntries(entries, parts, content, base, zero, fields) ==
    LET appended == IF (Len(entries) = 0 \/ parts[2] = base)
                       /\ Len(parts) < 3
                    THEN Append(entries, zero)
                    ELSE entries
        lastIdx  == Len(appended)
    IN  IF Len(parts) = 2
        THEN Went([appended EXCEPT ![lastIdx].URL = content])
        ELSE IF parts[3] \notin DOMAIN fields THEN Went(appended)
        ELSE IF lastIdx = 0 THEN Panicked(appended)
        ELSE Went([appended EXCEPT ![lastIdx][fields[parts[3]]] =
                       IF fields[parts[3]] \in IntFields
                       THEN parseIntSafely(content) ELSE content])

\* The struct x with its list field f handled.
handleField(x, f, parts, content, base, zero, fields) ==
    LET r == handleEntries(x[f], parts, content, base, zero, fields)
    IN  [panic |-> r.panic, v |-> [x EXCEPT ![f] = r.v]]

handleOpenGraphImageProperty(og, parts, content) ==
    handleField(og, "OpenGraphImage", parts, content, "image", ZeroImage,
                ImageFields)

handleOpenGraphVideoProperty(og, parts, content) ==
    handleField(og, "OpenGraphVideo", parts, content, "video",
                ZeroVideoMedia, VideoMediaFields)

handleOpenGraphAudioProperty(og, parts, content) ==
    handleField(og, "OpenGraphAudio", parts, content, "audio", ZeroAudio,
                AudioFields)

handleMusicSongProperty(music, parts, content) ==
    handleField(music, "Song", parts, content, "song", ZeroMusicSong,
                MusicSongFields)

handleVideoActorProperty(video, parts, content) ==
    handleField(video, "Actor", parts, content, "actor", ZeroVideoActor,
                VideoActorFields)

handleXCardsImageProperty(xc, parts, content) ==
    handleField(xc, "XCardsImage", parts, content, "image", ZeroImage,
                ImageFields)

handleXCardsVideoProperty(xc, parts, content) ==
    handleField(xc, "XCardsVideo", parts, content, "video",
                ZeroVideoMedia, VideoMediaFields)

handleXCardsAudioProperty(xc, parts, content) ==
    handleField(xc, "XCardsAudio", parts, content, "audio", ZeroAudio,
                AudioFields)

\* The properties that set one field, the field, and how the content is
\* assigned: as it is, parsed as an int, parsed as a time, or appended.
OpenGraphProperties ==
    ("og:type" :> <<"Type", "string">>)
    @@ ("og:title" :> <<"Title", "string">>)
    @@ ("og:url" :> <<"URL", "string">>)
    @@ ("og:description" :> <<"Description", "string">>)
    @@ ("og:determiner" :> <<"Determiner", "string">>)
    @@ ("og:locale" :> <<"Locale", "string">>)
    @@ ("og:locale:alternate" :> <<"LocaleAlternate", "append">>)
    @@ ("og:site_name" :> <<"SiteName", "string">>)

XCardsProperties ==
    ("twitter:card" :> <<"Card", "string">>)
    @@ ("twitter:site" :> <<"Site", "string">>)
    @@ ("twitter:creator" :> <<"Creator", "string">>)
    @@ ("twitter:type" :> <<"Type", "string">>)
    @@ ("twitter:title" :> <<"Title", "string">>)
    @@ ("twitter:url" :> <<"URL", "string">>)
    @@ ("twitter:description" :> <<"Description", "string">>)
    @@ ("twitter:determiner" :> <<"Determiner", "string">>)
    @@ ("twitter:locale" :> <<"Locale", "string">>)
    @@ ("twitter:locale:alternate" :> <<"LocaleAlternate", "append">>)
    @@ ("twitter:site_name" :> <<"SiteName", "string">>)

MusicProperties ==
    ("music:duration" :> <<"Duration", "int">>)
    @@ ("music:album" :> <<"Album", "string">>)
    @@ ("music:album:disc" :> <<"AlbumDisc", "int">>)
    @@ ("music:album:track" :> <<"AlbumTrack", "int">>)
    @@ ("music:musician" :> <<"Musician", "append">>)
    @@ ("music:release_date" :> <<"ReleaseDate", "string">>)
    @@ ("music:creator" :> <<"Creator", "append">>)

VideoProperties ==
    ("video:director" :> <<"Director", "append">>)
    @@ ("video:writer" :> <<"Writer", "append">>)
    @@ ("video:duration" :> <<"Duration", "int">>)
    @@ ("video:release_date" :> <<"ReleaseDate", "time">>)
    @@ ("video:tag" :> <<"Tag", "append">>)
    @@ ("video:series" :> <<"Series", "string">>)

ArticleProperties ==
    ("article:published_time" :> <<"PublishedTime", "time">>)
    @@ ("article:modified_time" :> <<"ModifiedTime", "time">>)
    @@ ("article:expiration_time" :> <<"ExpirationTime", "time">>)
    @@ ("article:author" :> <<"Author", "append">>)
    @@ ("article:section" :> <<"Section", "string">>)
    @@ ("article:tag" :> <<"Tag", "append">>)

BookProperties ==
    ("book:isbn" :> <<"ISBN", "string">>)
    @@ ("book:release_date" :> <<"ReleaseDate", "time">>)
    @@ ("book:author" :> <<"Author", "append">>)
    @@ ("book:tag" :> <<"Tag", "append">>)

ProfileProperties ==
    ("profile:first_name" :> <<"FirstName", "string">>)
    @@ ("profile:last_name" :> <<"LastName", "string">>)
    @@ ("profile:username" :> <<"Username", "string">>)
    @@ ("profile:gender" :> <<"Gender", "string">>)

\* The assignment of a case of a switch: x.field = content, converted or
\* appended as the property asks.
assign(x, how, content) ==
    LET field == how[1]
    IN  [x EXCEPT ![field] =
            IF how[2] = "int" THEN parseIntSafely(content)
            ELSE IF how[2] = "time" THEN parseTimeSafely(content)
            ELSE IF how[2] = "append" THEN Append(@, content)
            ELSE content]

\* The struct of a property family: the one x has, a new one if x has
\* none.
holder(x, f, zero) == IF x[f] = <<>> THEN zero ELSE x[f][1]

\* The branch of a property family that has its own struct s, kept in
\* x.f: the switch over the properties of the family; structured is what
\* the default case of the switch makes of s.
family(x, f, s, properties, property, content, structured) ==
    LET r == IF property \in DOMAIN properties
             THEN Went(assign(s, properties[property], content))
             ELSE structured
    IN  [panic |-> r.panic, v |-> [x EXCEPT ![f] = <<r.v>>]]

\* The cases of parseOpenGraphMetaTag and parseXCardsMetaTag for the
\* music:, video:, article:, book: and profile: properties.
parseFamilies(x, property, parts, content) ==
    IF HasPrefix(property, "music:")
    THEN LET s == holder(x, "Music", ZeroMusic)
         IN  family(x, "Music", s, MusicProperties, property, content,
                    IF HasPrefix(property, "music:song")
                    THEN handleMusicSongProperty(s, parts, content)
                    ELSE Went(s))
    ELSE IF HasPrefix(property, "video:")
    THEN LET s == holder(x, "Video", ZeroVideo)
         IN  family(x, "Video", s, VideoProperties, property, content,
                    IF HasPrefix(property, "video:actor")
                    THEN handleVideoActorProperty(s, parts, content)
                    ELSE Went(s))
    ELSE IF HasPrefix(property, "article:")
    THEN LET s == holder(x, "Article", ZeroArticle)
         IN  family(x, "Article", s, ArticleProperties, property, content,
                    Went(s))
    ELSE IF HasPrefix(property, "book:")
    THEN LET s == holder(x, "Book", ZeroBook)
         IN  family(x, "Book", s, BookProperties, property, content,
                    Went(s))
    ELSE IF HasPrefix(property, "profile:")
    THEN LET s == holder(x, "Profile", ZeroProfile)
         IN  family(x, "Profile", s, ProfileProperties, property, content,
                    Went(s))
    ELSE Went(x)

parseOpenGraphMetaTag(og, property, content) ==
    LET parts == Split(property)
    IN  IF property \in DOMAIN OpenGraphProperties
        THEN Went(assign(og, OpenGraphProperties[property], content))
        ELSE IF HasPrefix(property, "og:image")
        THEN handleOpenGraphImageProperty(og, parts, content)
        ELSE IF HasPrefix(property, "og:video")
        THEN handleOpenGraphVideoProperty(og, parts, content)
        ELSE IF HasPrefix(property, "og:audio")
        THEN handleOpenGraphAudioProperty(og, parts, content)
        ELSE parseFamilies(og, property, parts, content)

parseXCardsMetaTag(xc, property, content) ==
    LET parts == Split(property)
    IN  IF property \in DOMAIN XCardsProperties
        THEN Went(assign(xc, XCardsProperties[property], content))
        ELSE IF HasPrefix(property, "twitter:image")
        THEN handleXCardsImageProperty(xc, parts, content)
        ELSE IF HasPrefix(property, "twitter:video")
        THEN handleXCardsVideoProperty(xc, parts, content)
        ELSE IF HasPrefix(property, "twitter:audio")
        THEN handleXCardsAudioProperty(xc, parts, content)
        ELSE parseFamilies(xc, property, parts, content)

\* The kinds reflect reports for the fields of the structs.  A time.Time
\* is a struct of the unexported fields wall, ext and loc.
MusicKinds ==
    [Duration |-> <<"int">>, Album |-> <<"string">>,
     AlbumDisc |-> <<"int">>, AlbumTrack |-> <<"int">>,
     Musician |-> <<"slice">>, Song |-> <<"slice">>,
     Creator |-> <<"slice">>, ReleaseDate |-> <<"string">>]

VideoKinds ==
    [Duration |-> <<"int">>, Actor |-> <<"slice">>,
     Director |-> <<"slice">>, Writer |-> <<"slice">>,
     ReleaseDate |-> <<"time">>, Tag |-> <<"slice">>,
     Series |-> <<"string">>]

ArticleKinds ==
    [PublishedTime |-> <<"time">>, ModifiedTime |-> <<"time">>,
     ExpirationTime |-> <<"time">>, Author |-> <<"slice">>,
     Section |-> <<"string">>, Tag |-> <<"slice">>]

BookKinds ==
    [Author |-> <<"slice">>, ISBN |-> <<"string">>,
     ReleaseDate |-> <<"time">>, Tag |-> <<"slice">>]

ProfileKinds ==
    [FirstName |-> <<"string">>, LastName |-> <<"string">>,
     Username |-> <<"string">>, Gender |-> <<"string">>]

OpenGraphKinds ==
    [Type |-> <<"string">>, Title |-> <<"string">>, URL |-> <<"string">>,
     Description |-> <<"string">>, Determiner |-> <<"string">>,
     Locale |-> <<"string">>, LocaleAlternate |-> <<"slice">>,
     SiteName |-> <<"string">>, OpenGraphImage |-> <<"slice">>,
     OpenGraphVideo |-> <<"slice">>, OpenGraphAudio |-> <<"slice">>,
     Music |-> <<"ptr", MusicKinds>>, Video |-> <<"ptr", VideoKinds>>,
     Article |-> <<"ptr", ArticleKinds>>, Book |-> <<"ptr", BookKinds>>,
     Profile |-> <<"ptr", ProfileKinds>>]

\* fillMissingFieldsFromOpenGraph(target, source) for non-nil pointers to
\* structs with the fields of kinds: no error is returned for them.  The
\* recursion into a time.Time field looks at its unexported fields: wall
\* and ext are skipped as ints, and loc, a pointer, is passed to Set or
\* Interface when the source has a location, which panics for a value
\* obtained from an unexported field.
RECURSIVE fillMissingFieldsFromOpenGraph(_, _, _)
fillMissingFieldsFromOpenGraph(target, source, kinds) ==
    LET shared == DOMAIN source \cap DOMAIN target
        nested(f) == fillMissingFieldsFromOpenGraph(
                         target[f][1], source[f][1], kinds[f][2])
        both(f) == /\ kinds[f][1] = "ptr"
                   /\ target[f] # <<>>
                   /\ source[f] # <<>>
        field(f) ==
            IF f \notin shared THEN target[f]
            ELSE IF kinds[f][1] = "string"
            THEN (IF target[f] = "" THEN source[f] ELSE target[f])
            ELSE IF kinds[f][1] = "ptr"
            THEN (IF target[f] = <<>> /\ source[f] # <<>> THEN source[f]
                  ELSE IF both(f) THEN <<nested(f).v>>
                  ELSE target[f])
            ELSE IF kinds[f][1] = "slice"
            THEN (IF target[f] = <<>> /\ Len(source[f]) > 0
                  THEN source[f] ELSE target[f])
            ELSE target[f]
        panics(f) ==
            \/ kinds[f][1] = "time" /\ source[f].loc # "nil"
            \/ both(f) /\ nested(f).panic
    IN  [panic |-> \E f \in shared : panics(f),
         v     |-> [f \in DOMAIN target |-> field(f)]]

\* The token types the extractors look at, and one they skip.
TagTokens == { "StartTag", "SelfClosingTag", "EndTag" }

Token(type, data, attr) == [Type |-> type, Data |-> data, Attr |-> attr]

\* <meta key="val" content="content">
Meta(key, val, content) ==
    Token("StartTag", "meta",
          << [Key |-> key, Val |-> val],
             [Key |-> "content", Val |-> content] >>)

\* The value the loop over token.Attr leaves for key: that of the last
\* attribute of that name, "" when there is none.
RECURSIVE attrFrom(_, _, _, _)
attrFrom(attr, key, i, val) ==
    IF i > Len(attr) THEN val
    ELSE attrFrom(attr, key, i + 1,
                  IF attr[i].Key = key THEN attr[i].Val ELSE val)

\* The property and the content a turn of the loop of extractOpenGraph or
\* extractXCards reads off a token, key being the attribute that names
\* the property: both "" for a token the loop skips.
metaTag(token, key) ==
    IF token.Type \notin TagTokens \/ token.Data # "meta"
       \/ token.Attr = <<>>
    THEN [property |-> "", content |-> ""]
    ELSE [property |-> attrFrom(token.Attr, key, 1, ""),
          content  |-> attrFrom(token.Attr, "content", 1, "")]

\* The prefixes parseOpenGraphMetaTag dispatches on.
FamilyPrefixes ==
    { "og:", "music:", "video:", "article:", "book:", "profile:" }

\* One turn of the loop of extractOpenGraph on a token.
extractOpenGraphToken(token, og, ogHasValue) ==
    LET t == metaTag(token, "property")
    IN  IF t.property # "" /\ t.content # ""
        THEN LET r == parseOpenGraphMetaTag(og, t.property, t.content)
             IN  [panic |-> r.panic, v |-> r.v, hasValue |-> TRUE]
        ELSE [panic |-> FALSE, v |-> og, hasValue |-> ogHasValue]

\* One turn of the loop of extractXCards on a token.
extractXCardsToken(token, xc, xcHasValue) ==
    LET t == metaTag(token, "name")
    IN  IF t.property # "" /\ t.content # ""
        THEN LET r == parseXCardsMetaTag(xc, t.property, t.content)
             IN  [panic |-> r.panic, v |-> r.v, hasValue |-> TRUE]
        ELSE [panic |-> FALSE, v |-> xc, hasValue |-> xcHasValue]

\* ParseOpenGraph(URL, htmlContent), up to the loop of extractOpenGraph.
CallParseOpenGraph(page) ==
    [pc |-> "extractOpenGraph", call |-> "ParseOpenGraph", page |-> page,
     i |-> 1, xc |-> <<>>, xcHasValue |-> FALSE, og |-> NewOpenGraph,
     ogHasValue |-> FALSE, results |-> <<>>, errors |-> <<>>]

\* ParseXCards(URL, htmlContent), up to the loop of extractXCards.
CallParseXCards(page) ==
    [pc |-> "extractXCards", call |-> "ParseXCards", page |-> page,
     i |-> 1, xc |-> NewXCards, xcHasValue |-> FALSE, og |-> <<>>,
     ogHasValue |-> FALSE, results |-> <<>>, errors |-> <<>>]

\* A turn of the loop of extractXCards.
XCardsToken ==
    /\ meta.pc = "extractXCards"
    /\ meta.i <= Len(meta.page)
    /\ LET r == extractXCardsToken(meta.page[meta.i], meta.xc,
                                   meta.xcHasValue)
       IN  meta' = IF r.panic THEN [meta EXCEPT !.pc = "panic"]
                   ELSE [meta EXCEPT !.xc = r.v,
                                     !.xcHasValue = r.hasValue,
                                     !.i = @ + 1]
    /\ UNCHANGED <<walker, ld, extractor, last, ex, g>>

\* The end of the tokens in extractXCards, and ParseXCards going on to
\* extractOpenGraph.
XCardsEOF ==
    /\ meta.pc = "extractXCards"
    /\ meta.i > Len(meta.page)
    /\ meta' = [meta EXCEPT !.pc = "extractOpenGraph", !.i = 1,
                            !.og = NewOpenGraph]
    /\ UNCHANGED <<walker, ld, extractor, last, ex, g>>

\* A turn of the loop of extractOpenGraph.
OpenGraphToken ==
    /\ meta.pc = "extractOpenGraph"
    /\ meta.i <= Len(meta.page)
    /\ LET r == extractOpenGraphToken(meta.page[meta.i], meta.og,
                                      meta.ogHasValue)
       IN  meta' = IF r.panic THEN [meta EXCEPT !.pc = "panic"]
                   ELSE [meta EXCEPT !.og = r.v,
                                     !.ogHasValue = r.hasValue,
                                     !.i = @ + 1]
    /\ UNCHANGED <<walker, ld, extractor, last, ex, g>>

\* The end of the tokens in extractOpenGraph called by ParseOpenGraph,
\* and the return of ParseOpenGraph.
ParseOpenGraphReturn ==
    /\ meta.pc = "extractOpenGraph"
    /\ meta.call = "ParseOpenGraph"
    /\ meta.i > Len(meta.page)
    /\ meta' = [meta EXCEPT
                   !.pc = "done",
                   !.results = IF meta.ogHasValue THEN <<meta.og>>
                               ELSE <<>>]
    /\ UNCHANGED <<walker, ld, extractor, last, ex, g>>

\* The end of the tokens in extractOpenGraph called by ParseXCards, the
\* fill and the return of ParseXCards.
ParseXCardsReturn ==
    /\ meta.pc = "extractOpenGraph"
    /\ meta.call = "ParseXCards"
    /\ meta.i > Len(meta.page)
    /\ LET itemXCards    == IF meta.xcHasValue THEN <<meta.xc>> ELSE <<>>
           itemOpenGraph == IF meta.ogHasValue THEN <<meta.og>> ELSE <<>>
           target == IF itemXCards = <<>> THEN NewXCards
                     ELSE itemXCards[1]
           r == fillMissingFieldsFromOpenGraph(target, itemOpenGraph[1],
                                               OpenGraphKinds)
       IN  meta' = IF itemOpenGraph = <<>>
                   THEN [meta EXCEPT !.pc = "done", !.results = itemXCards]
                   ELSE IF r.panic THEN [meta EXCEPT !.pc = "panic"]
                   ELSE [meta EXCEPT !.pc = "done", !.results = <<r.v>>]
    /\ UNCHANGED <<walker, ld, extractor, last, ex, g>>

\* The tokens of the pages ParseOpenGraph is run on: meta tags of the
\* og:, music:, video: and article: properties with well-formed and
\* malformed contents, a meta tag of another vocabulary, meta tags the
\* loop skips, and tokens that are no meta tag.
OGTokens ==
    { Meta("property", p[1], p[2]) :
        p \in { <<"og:title", "T">>,
                <<"og:image", "a.png">>,
                <<"og:image", "b.png">>,
                <<"og:image:width", "12px">>,
                <<"og:image:width", "abc">>,
                <<"og:image:alt", "alt">>,
                <<"og:image:url", "u.png">>,
                <<"og:imagex", "x.png">>,
                <<"og:video", "v.mp4">>,
                <<"og:video:height", " 7">>,
                <<"og:audio", "a.mp3">>,
                <<"og:audio:type", "audio/mpeg">>,
                <<"music:song", "s">>,
                <<"music:song:disc", "-3">>,
                <<"music:duration", "1.5">>,
                <<"video:actor", "v">>,
                <<"video:actor:role", "r">>,
                <<"video:release_date", "2024-02-30">>,
                <<"article:published_time", "2024-01-02T03:04:05+02:00">>,
                <<"article:published_time", "01/02/2024">>,
                <<"fb:app_id", "1">>,
                <<"og:title", "">> } }
    \cup
    { Meta("name", "og:title", "N"),
      Token("SelfClosingTag", "meta",
            << [Key |-> "property", Val |-> "og:title"],
               [Key |-> "content", Val |-> "T"],
               [Key |-> "property", Val |-> "og:url"] >>),
      Token("StartTag", "title", <<>>),
      Token("EndTag", "meta", <<>>),
      Token("Text", "text", <<>>) }

Pages(tokens) == UNION { [1..n -> tokens] : n \in 0..MaxTags }

\* ParseOpenGraph called on every page of at most MaxTags tokens.
InitOpenGraph ==
    /\ WalkerIdle
    /\ ExtractorIdle
    /\ JSONLDIdle
    /\ \E page \in Pages(OGTokens) : meta = CallParseOpenGraph(page)

NextOpenGraph == OpenGraphToken \/ ParseOpenGraphReturn

SpecOpenGraph == InitOpenGraph /\ [][NextOpenGraph]_vars

\* The tokens of the pages ParseXCards is run on: meta tags read by
\* extractXCards (name), by extractOpenGraph (property) and by both.
XCTokens ==
    { Meta("name", p[1], p[2]) :
        p \in { <<"twitter:title", "X">>,
                <<"twitter:image", "i.png">>,
                <<"twitter:image:width", "9">>,
                <<"twitter:image0", "g.png">>,
                <<"music:album", "A">>,
                <<"article:section", "S">>,
                <<"description", "d">> } }
    \cup
    { Meta("property", p[1], p[2]) :
        p \in { <<"og:title", "T">>,
                <<"og:image", "o.png">>,
                <<"music:album", "B">>,
                <<"music:duration", "5">>,
                <<"music:musician", "m">>,
                <<"article:published_time", "2024-01-02T03:04:05Z">>,
                <<"article:published_time",
                  "2024-01-02T03:04:05+02:00">> } }
    \cup
    { Token("StartTag", "meta",
            << [Key |-> "name", Val |-> "twitter:title"],
               [Key |-> "property", Val |-> "og:title"],
               [Key |-> "content", Val |-> "B"] >>),
      Token("Text", "text", <<>>) }

\* ParseXCards called on every page of at most MaxTags tokens.
InitXCards ==
    /\ WalkerIdle
    /\ ExtractorIdle
    /\ JSONLDIdle
    /\ \E page \in Pages(XCTokens) : meta = CallParseXCards(page)

NextXCards ==
    XCardsToken \/ XCardsEOF \/ OpenGraphToken \/ ParseXCardsReturn

SpecXCards == InitXCards /\ [][NextXCards]_vars

(***************************************************************************)
(* JSONLD (extractors/jsonld.go)                                           *)
(*                                                                         *)
(* A page is the sequence of the contents of its application/ld+json       *)
(* script blocks, the submatches of the regular expression of              *)
(* extractJSONLD.  A JSON text is a sequence of tokens: the punctuation of *)
(* JSON, "k" for a string, "1" for a number, "n" for null, " " for white   *)
(* space and "#" for a character that starts no JSON token.  An object     *)
(* that was decoded is kept as its text without white space.  Results and  *)
(* errors carry the auxiliary fields block and elem, the block and the     *)
(* element of its array they come from.                                    *)
(***************************************************************************)
\* Largest number of script blocks of a page.
MaxBlocks == 3

RECURSIVE skipSpace(_, _)
\* The first index from i on that holds no white space, Len(s) + 1 when
\* there is none.
skipSpace(s, i) ==
    IF i <= Len(s) /\ s[i] = " " THEN skipSpace(s, i + 1) ELSE i

\* s without its white space.
Compact(s) == SelectSeq(s, LAMBDA c : c # " ")

RECURSIVE scanValue(_, _)
RECURSIVE scanMembers(_, _, _)
RECURSIVE scanElements(_, _, _)
\* The scanner of encoding/json on the value that starts at or after i:
\* the index after the value, 0 for a syntax error.
scanValue(s, i) ==
    LET p == skipSpace(s, i)
    IN  IF p > Len(s) THEN 0
        ELSE IF s[p] \in { "k", "1", "n" } THEN p + 1
        ELSE IF s[p] = "{" THEN scanMembers(s, p + 1, TRUE)
        ELSE IF s[p] = "[" THEN scanElements(s, p + 1, TRUE)
        ELSE 0

\* The members of an object after its "{" (first) or after a ",".
scanMembers(s, i, first) ==
    LET p == skipSpace(s, i)
    IN  IF p > Len(s) THEN 0
        ELSE IF first /\ s[p] = "}" THEN p + 1
        ELSE IF s[p] # "k" THEN 0
        ELSE LET c == skipSpace(s, p + 1)
             IN  IF c > Len(s) \/ s[c] # ":" THEN 0
                 ELSE LET v == scanValue(s, c + 1)
                          q == skipSpace(s, v)
                      IN  IF v = 0 \/ q > Len(s) THEN 0
                          ELSE IF s[q] = "," THEN scanMembers(s, q + 1, FALSE)
                          ELSE IF s[q] = "}" THEN q + 1
                          ELSE 0

\* The elements of an array after its "[" (first) or after a ",".
scanElements(s, i, first) ==
    LET p == skipSpace(s, i)
    IN  IF p > Len(s) THEN 0
        ELSE IF first /\ s[p] = "]" THEN p + 1
        ELSE LET v == scanValue(s, p)
                 q == skipSpace(s, v)
             IN  IF v = 0 \/ q > Len(s) THEN 0
                 ELSE IF s[q] = "," THEN scanElements(s, q + 1, FALSE)
                 ELSE IF s[q] = "]" THEN q + 1
                 ELSE 0

\* checkValid of encoding/json: one value, then white space only.
checkValid(s) ==
    LET v == scanValue(s, 1)
    IN  v # 0 /\ skipSpace(s, v) > Len(s)

RECURSIVE arrayElements(_, _, _)
\* The texts of the elements of the array of the valid text s, from after
\* its "[" (first) or after a ",".
arrayElements(s, i, first) ==
    LET p == skipSpace(s, i)
    IN  IF first /\ s[p] = "]" THEN <<>>
        ELSE LET v == scanValue(s, p)
                 q == skipSpace(s, v)
             IN  <<SubSeq(s, p, v - 1)>>
                 \o (IF s[q] = "," THEN arrayElements(s, q + 1, FALSE)
                     ELSE <<>>)

\* json.Unmarshal into a map[string]any: [err, data], err <<>> for nil and
\* data <<>> for nothing decoded, else <<the map>>.
unmarshalMap(s) ==
    IF ~checkValid(s) THEN [err |-> <<"syntax">>, data |-> <<>>]
    ELSE LET top == s[skipSpace(s, 1)]
         IN  IF top = "{" THEN [err |-> <<>>, data |-> <<Compact(s)>>]
             ELSE IF top = "n" THEN [err |-> <<>>, data |-> <<<<"n">>>>]
             ELSE [err |-> <<"type">>, data |-> <<>>]

\* json.Unmarshal into a []map[string]any: an element that is null
\* gives a nil map, one that is neither null nor an object a type error.
unmarshalMaps(s) ==
    IF ~checkValid(s) THEN [err |-> <<"syntax">>, data |-> <<>>]
    ELSE LET p == skipSpace(s, 1)
         IN  IF s[p] = "n" THEN [err |-> <<>>, data |-> <<>>]
             ELSE IF s[p] # "[" THEN [err |-> <<"type">>, data |-> <<>>]
             ELSE LET es == arrayElements(s, p + 1, TRUE)
                  IN  IF \E j \in 1..Len(es) : es[j][1] \notin { "{", "n" }
                      THEN [err  |-> <<"type">>,
                            data |-> [j \in 1..Len(es) |-> Compact(es[j])]]
                      ELSE [err  |-> <<>>,
                            data |-> [j \in 1..Len(es) |-> Compact(es[j])]]

LDItem(i, j, value) == [block |-> i, elem |-> j, value |-> value]

LDError(i, err) == [block |-> i, err |-> err]

\* One turn of the loop of extractJSONLD, on the i-th match.
extractBlock(acc, i, match) ==
    LET jsonLD == TrimSpace(match)
    IN  IF jsonLD = <<>> THEN acc
        ELSE IF jsonLD[1] = "["
        THEN LET r == unmarshalMaps(jsonLD)
             IN  IF r.err # <<>>
                 THEN [acc EXCEPT !.errors = Append(@, LDError(i, r.err[1]))]
                 ELSE [acc EXCEPT !.jsonLDs =
                          @ \o [j \in 1..Len(r.data) |->
                                   LDItem(i, j, r.data[j])]]
        ELSE IF jsonLD[1] = "{"
        THEN LET r == unmarshalMap(jsonLD)
             IN  IF r.err # <<>>
                 THEN [acc EXCEPT !.errors = Append(@, LDError(i, r.err[1]))]
                 ELSE [acc EXCEPT !.jsonLDs =
                          Append(@, LDItem(i, 0, r.data[1]))]
        ELSE acc

RECURSIVE extractJSONLDFrom(_, _, _)
extractJSONLDFrom(acc, i, matches) ==
    IF i > Len(matches) THEN acc
    ELSE extractJSONLDFrom(extractBlock(acc, i, matches[i]), i + 1, matches)

\* [jsonLDs, errors]
extractJSONLD(matches) ==
    extractJSONLDFrom([jsonLDs |-> <<>>, errors |-> <<>>], 1, matches)

JSONLD ==
    /\ ld.pc = "call"
    /\ LET r == extractJSONLD(ld.matches)
       IN  ld' = [ld EXCEPT !.pc = "done",
                            !.results = r.jsonLDs,
                            !.errors = r.errors]
    /\ UNCHANGED <<walker, extractor, last, ex, g, meta>>

BlockEmpty == <<>>

BlockBlank == <<" ">>

BlockObject == <<" ", "{", "k", ":", " ", "1", "}", " ">>

BlockEmptyObject == <<"{", "}">>

BlockArray == <<"[", "{", "k", ":", "1", "}", ",", " ", "{", "}", "]">>

BlockEmptyArray == <<"[", "]">>

BlockNullInArray == <<"[", "n", "]">>

BlockNumber == <<"1">>

\* The two blocks of test-32-ldjson-errors.html.
BlockArrayBroken == <<"[", "{", "k", ":", "1", ",", "#", "}", "]">>

BlockObjectBroken == <<"{", "k", ":", "1", ",", "}", "]">>

BlockNumberInArray == <<"[", "{", "}", ",", "1", "]">>

BlockObjectUnclosed == <<"{", "k", ":", "1">>

\* An object behind a character that starts no JSON value.
BlockObjectBehindMark == <<"#", "{", "k", ":", "1", "}">>

LDBlocks ==
    { BlockEmpty, BlockBlank, BlockObject, BlockEmptyObject, BlockArray,
      BlockEmptyArray, BlockNullInArray, BlockNumber, BlockArrayBroken,
      BlockObjectBroken, BlockNumberInArray, BlockObjectUnclosed,
      BlockObjectBehindMark }

\* Every page of at most MaxBlocks script blocks over LDBlocks.
InitJSONLD ==
    /\ WalkerIdle
    /\ ExtractorIdle
    /\ MetaIdle
    /\ \E n \in 0..MaxBlocks :
         \E matches \in [1..n -> LDBlocks] :
            ld = [pc |-> "call", matches |-> matches,
                  results |-> <<>>, errors |-> <<>>]

NextJSONLD == JSONLD

SpecJSONLD == InitJSONLD /\ [][NextJSONLD]_vars

(***************************************************************************)
(* Documents and base URLs the walker is run on                            *)
(***************************************************************************)
Attr(key, val) == [Key |-> key, Val |-> val]

\* An element node; Data is its tag name.
ElementTag(parent, tag, attr) ==
    [parent |-> parent, Type |-> ElementNode, Data |-> tag, Attr |-> attr]

Element(parent, attr) == ElementTag(parent, <<"d", "i", "v">>, attr)

Text(parent, data) ==
    [parent |-> parent, Type |-> TextNode, Data |-> data, Attr |-> <<>>]

\* The text of the i-th node, so that values of different nodes differ.
TextOf(i) == <<<<"a", "b", "c", "d", "e", "f">>[i]>>

\* What a node of a document of Spec is: a text node, or an element with
\* one of these attribute lists.
ScopeKinds ==
    { "text", "plain", "scope", "propA", "propAscope", "propB", "propBlank" }

KindAttr(kind) ==
    CASE kind = "plain"      -> <<>>
      [] kind = "scope"      -> <<Attr("itemscope", <<>>),
                                  Attr("itemtype", <<"t">>)>>
      [] kind = "propA"      -> <<Attr("itemprop", <<"a">>)>>
      [] kind = "propAscope" -> <<Attr("itemprop", <<" ", "a">>),
                                  Attr("itemscope", <<>>),
                                  Attr("itemtype", <<"u", " ">>),
                                  Attr("itemid", <<"i">>)>>
      [] kind = "propB"      -> <<Attr("itemprop", <<"b">>)>>
      [] kind = "propBlank"  -> <<Attr("itemprop", <<" ">>)>>

KindNode(i, parent, kind) ==
    IF kind = "text" THEN Text(parent, TextOf(i))
    ELSE Element(parent, KindAttr(kind))

\* The ancestors of node j under the parent function par, j itself and
\* node 0 included.
RECURSIVE AncSelf(_, _)
AncSelf(par, j) == IF j = 0 THEN {0} ELSE {j} \cup AncSelf(par, par[j])

\* The parent functions of the n-node trees numbered in pre-order.
PreorderParents(n) ==
    { par \in [1..n -> 0..(n - 1)] :
        \A i \in 1..n :
            /\ par[i] < i
            /\ i > 1 => par[i] \in AncSelf(par, i - 1) }

BaseURL == <<"h", "t", "t", "p", ":", "/", "/", "h", "/", "b", "/", "p">>

\* Every tree of at most MaxNodes nodes over ScopeKinds in which only
\* elements have children.
InitScope ==
    /\ \E n \in 1..MaxNodes :
         \E par \in PreorderParents(n) :
           \E kind \in [1..n -> ScopeKinds] :
              /\ \A i \in 1..n : par[i] # 0 => kind[par[i]] # "text"
              /\ doc = [i \in 1..n |-> KindNode(i, par[i], kind[i])]
    /\ URL = BaseURL
    /\ pc = "call"
    /\ items = <<>>
    /\ errors = <<>>
    /\ walk = NoWalk
    /\ ExtractorIdle
    /\ JSONLDIdle
    /\ MetaIdle

\* An attribute that may be missing: <<>> for no attribute, <<val>> for an
\* attribute of value val.
Opt(key, choice) ==
    IF choice = <<>> THEN <<>> ELSE <<Attr(key, choice[1])>>

Absent == <<>>

ItemIDChoices == { Absent, << <<>> >>, << <<" ", "i", " ">> >> }

PropChoices ==
    { <<"u", "r", "l">>, <<"a", "U", "r", "l">>, <<"a">>,
      <<"u", "r", "l", "a">> }

DatetimeChoices == { Absent, << <<>> >>, << <<" ", "d", " ">> >> }

HrefChoices ==
    { Absent,
      << <<>> >>,
      << <<"/", "p">> >>,
      << <<" ", "/", "p", " ">> >>,
      << <<"p">> >>,
      << <<"/", "/", "h", "/", "p">> >>,
      << <<"/", "/", "h", " ">> >>,
      << <<"h", "t", "t", "p", ":", "/", "/", "b">> >>,
      << <<"h", "t", "t", "p", "s", ":", "/", "/", "b">> >>,
      << <<"h", "t", "t", "p", ":", "/", "b">> >> }

TagChoices == { <<"a">>, <<"t", "i", "m", "e">> }

\* The base URLs: the empty one, well-formed ones with a path or a query
\* or an upper-case scheme letter, one without scheme, and malformed ones
\* (no scheme before the colon, a space in the host).
BaseURLs ==
    { <<>>,
      BaseURL,
      <<"h", "t", "t", "p", "s", ":", "/", "/", "h", "?", "q">>,
      <<"H", "t", "t", "p", ":", "/", "/", "h">>,
      <<"h", "/", "b">>,
      <<":", "/", "/", "h">>,
      <<"h", "t", "t", "p", ":", "/", "/", "h", " ", "h", "/">> }

\* One item whose root holds one property element with one text child: the
\* root's itemid, and the property element's tag, name, itemscope, itemid,
\* datetime and href vary, and so does the base URL.
InitValue ==
    /\ \E rootID \in ItemIDChoices, prop \in PropChoices,
          scope \in BOOLEAN, id \in ItemIDChoices,
          datetime \in DatetimeChoices, href \in HrefChoices,
          tag \in TagChoices :
         doc = << Element(0, <<Attr("itemscope", <<>>)>>
                               \o Opt("itemid", rootID)),
                  ElementTag(1, tag, <<Attr("itemprop", prop)>>
                               \o (IF scope
                                   THEN <<Attr("itemscope", <<>>)>>
                                   ELSE <<>>)
                               \o Opt("itemid", id)
                               \o Opt("datetime", datetime)
                               \o Opt("href", href)),
                  Text(2, <<" ", "x">>) >>
    /\ URL \in BaseURLs
    /\ pc = "call"
    /\ items = <<>>
    /\ errors = <<>>
    /\ walk = NoWalk
    /\ ExtractorIdle
    /\ JSONLDIdle
    /\ MetaIdle

Next == W3CMicrodata

Spec == InitScope /\ [][Next]_vars

\* The walk call by call on the same documents, and the same with the
\* steps of the one goroutine that runs it taken as long as there is one
\* to take.
SpecWalk == InitScope /\ [][NextWalk]_vars

FairWalk == SpecWalk /\ WF_vars(NextWalk)

SpecValue == InitValue /\ [][Next]_vars

(***************************************************************************)
(* Vocabulary of the properties: the document side                         *)
(***************************************************************************)
Done == pc = "done"

IsElement(n) == n \in NodeIds /\ doc[n].Type = ElementNode

\* n carries itemscope.
IsScopeElement(n) == IsElement(n) /\ getAttr(n, "itemscope")

\* The itemprop name of n after trimming, <<>> when it has none.
PropName(n) == IF IsElement(n) THEN getAttrVal(n, "itemprop") ELSE <<>>

\* The proper ancestors of n that are nodes of doc (node 0 left out).
RECURSIVE ProperAncestors(_)
ProperAncestors(n) ==
    IF n = 0 \/ doc[n].parent = 0 THEN {}
    ELSE {doc[n].parent} \cup ProperAncestors(doc[n].parent)

\* The nodes strictly between the ancestor a and its descendant e.
Between(a, e) == ProperAncestors(e) \ ({a} \cup ProperAncestors(a))

\* The nearest proper ancestor of n that carries itemscope, 0 when none.
RECURSIVE NearestScope(_)
NearestScope(n) ==
    IF n = 0 \/ doc[n].parent = 0 THEN 0
    ELSE IF IsScopeElement(doc[n].parent) THEN doc[n].parent
    ELSE NearestScope(doc[n].parent)

(***************************************************************************)
(* Vocabulary of the properties: the result side                           *)
(***************************************************************************)
\* The values of a slot: the slot itself when a scalar, its elements when
\* a slice.
SlotValues(slot) == IF slot.tag = "slice" THEN slot.vals ELSE <<slot>>

\* The element a scalar value was read from (0 for a value that is no
\* scalar).
ValueNode(v) ==
    IF v.tag = "item" THEN v.item.node
    ELSE IF v.tag = "string" THEN v.node
    ELSE 0

RECURSIVE ItemsUnder(_)
RECURSIVE ItemsInValue(_)
\* item and every Item nested in it, at any depth.
ItemsUnder(item) ==
    {item} \cup UNION { ItemsInValue(item.Properties[p]) :
                            p \in DOMAIN item.Properties }

ItemsInValue(v) ==
    IF v.tag = "item" THEN ItemsUnder(v.item)
    ELSE IF v.tag = "slice"
    THEN UNION { ItemsInValue(v.vals[i]) : i \in 1..Len(v.vals) }
    ELSE {}

\* Every Item of the result, top-level or nested.
AllItems == UNION { ItemsUnder(items[i]) : i \in 1..Len(items) }

\* The elements that produced a value of slot p of item.
NodesOfSlot(item, p) ==
    LET vs == SlotValues(MapGet(item.Properties, p))
    IN  { ValueNode(vs[i]) : i \in 1..Len(vs) } \ {0}

\* How many values of slot p of item were read from element e.
CountFrom(item, p, e) ==
    LET vs == SlotValues(MapGet(item.Properties, p))
    IN  Cardinality({ i \in 1..Len(vs) : ValueNode(vs[i]) = e })

\* Where the result holds an Item: <<holder, name, index, node>>, with
\* holder 0 for an entry of the top-level sequence.
Occurrences ==
    { <<0, <<>>, i, items[i].node>> : i \in 1..Len(items) }
    \cup UNION { UNION { { <<I.node, p, j, SlotValues(I.Properties[p])[j].item.node>> :
                             j \in { k \in 1..Len(SlotValues(I.Properties[p])) :
                                       SlotValues(I.Properties[p])[k].tag = "item" } } :
                         p \in DOMAIN I.Properties } :
                 I \in AllItems }

(***************************************************************************)
(* C1-C5: which elements become which values of which item                 *)
(***************************************************************************)

\* C1 (as claimed): every element with a non-empty trimmed itemprop and an
\* itemscope ancestor contributes exactly one value, under its itemprop
\* name, to the item rooted at its nearest itemscope ancestor, wherever it
\* sits below that ancestor.
C1_PropertyDiscovery ==
    Done =>
        \A e \in NodeIds :
            (PropName(e) # <<>> /\ NearestScope(e) # 0) =>
                \E I \in AllItems :
                    /\ I.node = NearestScope(e)
                    /\ CountFrom(I, PropName(e), e) = 1

\* C2 (as claimed): no item holds a value read from an element that lies
\* inside a descendant element carrying itemscope, whether or not that
\* descendant has an itemprop.
C2_ScopeStopping ==
    Done =>
        \A I \in AllItems : \A p \in DOMAIN I.Properties :
            \A e \in NodesOfSlot(I, p) :
                \A d \in Between(I.node, e) : ~IsScopeElement(d)

\* C3 (as claimed): every itemscope element yields exactly one Item of the
\* result (a top-level entry or one nested value of one slot), and every
\* Item of the result belongs to an itemscope element.
C3_OneItemPerScope ==
    Done =>
        /\ \A n \in NodeIds :
               IsScopeElement(n) =>
                   Cardinality({ o \in Occurrences : o[4] = n }) = 1
        /\ \A o \in Occurrences : IsScopeElement(o[4])

\* e carries itemscope and a non-empty itemprop, and lies below the root of
\* item I with only elements without itemprop and without itemscope between.
BoundScopeOf(I, e) ==
    /\ IsScopeElement(e)
    /\ PropName(e) # <<>>
    /\ I.node \in ProperAncestors(e)
    /\ \A x \in Between(I.node, e) :
           ~getAttr(x, "itemprop") /\ ~getAttr(x, "itemscope")

\* The values of slot p of item I that were read from element e.
ValuesFrom(I, p, e) ==
    LET vs == SlotValues(MapGet(I.Properties, p))
    IN  { vs[i] : i \in { j \in 1..Len(vs) : ValueNode(vs[j]) = e } }

\* C4: an element e with itemscope and a non-empty itemprop P that is a
\* child of an item's root (or reached from it only through elements
\* without itemprop and without itemscope) is exactly one nested Item under
\* P of that item, with e's own type and id and with properties read only
\* from e's descendants, and is no top-level entry; every top-level entry
\* is an itemscope element without itemscope ancestor.
C4_NestedScopeBinding ==
    Done =>
        /\ \A I \in AllItems : \A e \in NodeIds :
               BoundScopeOf(I, e) =>
                   /\ CountFrom(I, PropName(e), e) = 1
                   /\ \A v \in ValuesFrom(I, PropName(e), e) :
                          /\ v.tag = "item"
                          /\ v.item.Type = getAttrVal(e, "itemtype")
                          /\ v.item.ID \in {NilID, <<getAttrVal(e, "itemid")>>}
                          /\ getAttrVal(e, "itemid") # <<>> => v.item.ID # NilID
                          /\ \A q \in DOMAIN v.item.Properties :
                                 \A x \in NodesOfSlot(v.item, q) :
                                     e \in ProperAncestors(x)
                   /\ \A i \in 1..Len(items) : items[i].node # e
        /\ \A i \in 1..Len(items) :
               /\ IsScopeElement(items[i].node)
               /\ NearestScope(items[i].node) = 0

\* C4's case: a nested scope reached through a plain element, bound with an
\* id and a property of its own, below a top-level item.
C4_Witness ==
    /\ Done
    /\ \E I \in AllItems : \E e \in NodeIds :
           /\ BoundScopeOf(I, e)
           /\ Between(I.node, e) # {}
           /\ \E v \in ValuesFrom(I, PropName(e), e) :
                  /\ v.tag = "item"
                  /\ v.item.ID # NilID
                  /\ DOMAIN v.item.Properties # {}

\* The elements whose value the walker binds to the item rooted at a: the
\* elements with a non-empty itemprop below a with no element of non-empty
\* itemprop between.
Discovered(a) ==
    { e \in NodeIds :
        /\ IsElement(e)
        /\ a \in ProperAncestors(e)
        /\ PropName(e) # <<>>
        /\ \A x \in Between(a, e) : PropName(x) = <<>> }

\* The elements that give item I a value for the name p.
Received(I, p) == { e \in Discovered(I.node) : PropName(e) = p }

\* A set of node numbers in document order.
RECURSIVE SortedSeq(_)
SortedSeq(S) ==
    IF S = {} THEN <<>>
    ELSE LET m == CHOOSE x \in S : \A y \in S : x <= y
         IN  <<m>> \o SortedSeq(S \ {m})

IsScalar(v) == v.tag \in {"string", "item"}

\* The property names of the document.
PropNames == { PropName(e) : e \in NodeIds } \ {<<>>}

\* C5: a name that receives k values in one item holds the value itself
\* when k = 1 and, when k >= 2, one flat sequence of exactly the k values in
\* the document order of their elements; a name that receives none is
\* absent.
C5_MultiValue ==
    Done =>
        \A I \in AllItems : \A p \in PropNames \cup DOMAIN I.Properties :
            LET es   == SortedSeq(Received(I, p))
                k    == Len(es)
                slot == MapGet(I.Properties, p)
            IN  /\ k = 0 => slot = Nil
                /\ k = 1 => IsScalar(slot) /\ ValueNode(slot) = es[1]
                /\ k >= 2 =>
                       /\ slot.tag = "slice"
                       /\ Len(slot.vals) = k
                       /\ \A i \in 1..k :
                              /\ IsScalar(slot.vals[i])
                              /\ ValueNode(slot.vals[i]) = es[i]

\* C5's case: a slot of three or more values mixing strings and Items.
C5_Witness ==
    /\ Done
    /\ \E I \in AllItems : \E p \in DOMAIN I.Properties :
           /\ I.Properties[p].tag = "slice"
           /\ Len(I.Properties[p].vals) >= 3
           /\ \E i, j \in 1..Len(I.Properties[p].vals) :
                  /\ I.Properties[p].vals[i].tag = "string"
                  /\ I.Properties[p].vals[j].tag = "item"

(***************************************************************************)
(* C6-C10: the id of an item and the value of a property element           *)
(***************************************************************************)
\* The untrimmed value of the first attribute named key of n, which has one.
RawAttr(n, key) == doc[n].Attr[attrIndexFrom(doc[n].Attr, key, 1)].Val

\* c is a property element without itemscope that is a child of the root
\* of an item of the result.
IsPropertyElement(c) ==
    /\ IsElement(c)
    /\ PropName(c) # <<>>
    /\ ~getAttr(c, "itemscope")
    /\ \E I \in AllItems : I.node = doc[c].parent

\* The strings the result holds for property element c.
StringsFrom(c) ==
    { v.s : v \in { w \in UNION { ValuesFrom(I, PropName(c), c) :
                                      I \in AllItems } :
                        w.tag = "string" } }

\* C6 (as claimed): the id of an item is present exactly when its element
\* carries an itemid attribute (an empty itemid gives a present, empty id),
\* and a present id equals the attribute value.
C6_ItemIDPresence ==
    Done =>
        \A I \in AllItems :
            /\ I.ID # NilID <=> getAttr(I.node, "itemid")
            /\ I.ID # NilID => I.ID = <<RawAttr(I.node, "itemid")>>

\* c is a property element to which the URL rule is claimed to apply: its
\* name is url or ends with Url, it has an href and no datetime.
IsUrlElement(c) ==
    /\ IsPropertyElement(c)
    /\ IsUrlProp(PropName(c))
    /\ getAttr(c, "href")
    /\ ~getAttr(c, "datetime")

\* scheme://host of a base URL that parses.
SchemeHost(rawURL) ==
    urlParse(rawURL).Scheme \o <<":", "/", "/">> \o urlParse(rawURL).Host

\* The value the URL rule gives for the href string href.
Resolved(href) ==
    IF IsAbsoluteHref(href) THEN href ELSE SchemeHost(URL) \o href

\* C7 (as claimed): under a base URL that parses, the value of a url-named
\* property with an href and no datetime is the href verbatim when the href
\* begins with //, http:// or https://, and otherwise scheme://host of the
\* base URL followed by the href.
C7_UrlResolutionVerbatim ==
    (Done /\ ~urlParse(URL).err) =>
        \A c \in NodeIds :
            IsUrlElement(c) =>
                StringsFrom(c) = { Resolved(RawAttr(c, "href")) }

\* C7 (amended): the same with the href trimmed of surrounding white space,
\* both where the prefix is tested and in the value.
C7_UrlResolution ==
    (Done /\ ~urlParse(URL).err) =>
        \A c \in NodeIds :
            IsUrlElement(c) =>
                StringsFrom(c) = { Resolved(TrimSpace(RawAttr(c, "href"))) }

\* C7's case: href " /p " under the base URL http://h/b/p gives http://h/p,
\* the path of the base being dropped.
C7_Witness ==
    /\ Done
    /\ URL = BaseURL
    /\ \E c \in NodeIds :
           /\ IsUrlElement(c)
           /\ RawAttr(c, "href") = <<" ", "/", "p", " ">>
           /\ StringsFrom(c) =
                  { <<"h", "t", "t", "p", ":", "/", "/", "h", "/", "p">> }

\* C8 (as claimed): a url-named property on an element without href and
\* without datetime takes the element's text content as its value.
C8_NoHrefTextContent ==
    Done =>
        \A c \in NodeIds :
            ( /\ IsPropertyElement(c)
              /\ IsUrlProp(PropName(c))
              /\ ~getAttr(c, "href")
              /\ ~getAttr(c, "datetime") ) =>
                StringsFrom(c) = { getTextContent(c) }

\* C9 (as claimed): under an empty or malformed base URL the value of a
\* url-named property with a relative href is the href as read, and the
\* item is still returned.
C9_DegradedResolution ==
    (Done /\ (URL = <<>> \/ urlParse(URL).err)) =>
        /\ \A n \in NodeIds :
               (IsScopeElement(n) /\ NearestScope(n) = 0) =>
                   \E i \in 1..Len(items) : items[i].node = n
        /\ \A c \in NodeIds :
               (IsUrlElement(c) /\ ~IsAbsoluteHref(getAttrVal(c, "href"))) =>
                   StringsFrom(c) = { getAttrVal(c, "href") }

\* C10 (as claimed): a property element without itemscope that carries a
\* datetime attribute has that attribute's trimmed string as its value,
\* whatever its tag, name, href and text.
C10_DatetimeAnyValue ==
    Done =>
        \A c \in NodeIds :
            (IsPropertyElement(c) /\ getAttr(c, "datetime")) =>
                StringsFrom(c) = { TrimSpace(RawAttr(c, "datetime")) }

\* C10 (amended): the same for a datetime attribute whose trimmed value is
\* not empty.
C10_DatetimePrecedence ==
    Done =>
        \A c \in NodeIds :
            ( /\ IsPropertyElement(c)
              /\ getAttr(c, "datetime")
              /\ TrimSpace(RawAttr(c, "datetime")) # <<>> ) =>
                StringsFrom(c) = { TrimSpace(RawAttr(c, "datetime")) }

\* C10's case: an <a> named url with an absolute href, a text and the
\* datetime " d " has the value "d".
C10_Witness ==
    /\ Done
    /\ \E c \in NodeIds :
           /\ IsPropertyElement(c)
           /\ doc[c].Data = <<"a">>
           /\ PropName(c) = <<"u", "r", "l">>
           /\ getAttr(c, "href")
           /\ IsAbsoluteHref(getAttrVal(c, "href"))
           /\ getAttr(c, "datetime")
           /\ getTextContent(c) # <<>>
           /\ StringsFrom(c) = { <<"d">> }

(***************************************************************************)
(* C11: getTextContent                                                     *)
(***************************************************************************)
\* Largest number of nodes below the property element of a document of
\* SpecText.
MaxTextNodes == 3

\* What a node below the property element is: a text node with this data,
\* or an element with this value attribute (or none).
TextKinds ==
    { [isText |-> TRUE, s |-> <<d>>] :
        d \in { <<" ">>, <<"x">>, <<"y", " ">> } }
    \cup
    { [isText |-> FALSE, s |-> v] :
        v \in { Absent, << <<"v">> >>, << <<" ">> >>, << <<" ", "w">> >> } }

TextKindNode(parent, kind) ==
    IF kind.isText THEN Text(parent, kind.s[1])
    ELSE Element(parent, Opt("value", kind.s))

\* One item whose root holds one property element named a, with or without
\* a value attribute, above every tree of at most MaxTextNodes nodes over
\* TextKinds in which only elements have children.
InitText ==
    /\ \E n \in 0..MaxTextNodes :
         \E par \in PreorderParents(n) :
           \E kind \in [1..n -> TextKinds],
              own \in { Absent, << <<"u">> >>, << <<>> >> } :
              /\ \A i \in 1..n : par[i] # 0 => ~kind[par[i]].isText
              /\ doc = << Element(0, <<Attr("itemscope", <<>>)>>),
                          Element(1, <<Attr("itemprop", <<"a">>)>>
                                       \o Opt("value", own)) >>
                       \o [i \in 1..n |-> TextKindNode(par[i] + 2, kind[i])]
    /\ URL = BaseURL
    /\ pc = "call"
    /\ items = <<>>
    /\ errors = <<>>
    /\ walk = NoWalk
    /\ ExtractorIdle
    /\ JSONLDIdle
    /\ MetaIdle

SpecText == InitText /\ [][Next]_vars

\* The nodes of the subtree of c: c and its descendants, which follow it
\* in document order.
Subtree(c) == { n \in NodeIds : n = c \/ c \in ProperAncestors(n) }

\* The raw value attribute of element n, "" when it has none.
RawValue(n) ==
    IF getAttr(n, "value") THEN RawAttr(n, "value") ELSE <<>>

\* The string accumulated over the nodes ns, taken in document order: an
\* element appends its value attribute, a text node its data if nothing
\* has been accumulated before it.
RECURSIVE Accumulated(_)
Accumulated(ns) ==
    IF ns = <<>> THEN <<>>
    ELSE LET before == Accumulated(SubSeq(ns, 1, Len(ns) - 1))
             n      == ns[Len(ns)]
         IN  IF doc[n].Type = ElementNode THEN before \o RawValue(n)
             ELSE IF before = <<>> THEN doc[n].Data
             ELSE before

\* The text nodes of ns whose data is part of Accumulated(ns).
Contributing(ns) ==
    { i \in 1..Len(ns) :
        /\ doc[ns[i]].Type = TextNode
        /\ doc[ns[i]].Data # <<>>
        /\ Accumulated(SubSeq(ns, 1, i - 1)) = <<>> }

\* C11: the text content of a property element is the trimmed
\* concatenation, over its subtree in document order, of the value
\* attribute of every element and of the data of a text node only if
\* nothing has been accumulated before it; at most one text node
\* contributes.
C11_TextContent ==
    Done =>
        \A c \in NodeIds :
            (IsPropertyElement(c) /\ ~getAttr(c, "datetime")
                 /\ ~IsUrlProp(PropName(c))) =>
                LET ns == SortedSeq(Subtree(c))
                IN  /\ StringsFrom(c) = { TrimSpace(Accumulated(ns)) }
                    /\ Cardinality(Contributing(ns)) <= 1

\* C11's case: a text node contributes, a later text node is dropped and
\* the value attribute of a later element is still appended.
C11_Witness ==
    /\ Done
    /\ \E c \in NodeIds :
           /\ IsPropertyElement(c)
           /\ LET ns == SortedSeq(Subtree(c))
              IN  \E i, j, k \in 1..Len(ns) :
                      /\ i < j /\ i < k
                      /\ i \in Contributing(ns)
                      /\ doc[ns[j]].Type = TextNode
                      /\ doc[ns[j]].Data \notin { <<" ">> }
                      /\ doc[ns[k]].Type = ElementNode
                      /\ TrimSpace(RawValue(ns[k])) # <<>>
                      /\ StringsFrom(c) = { TrimSpace(Accumulated(ns)) }

(***************************************************************************)
(* C12, C16: documents over every combination of the microdata attributes  *)
(***************************************************************************)
\* Largest number of nodes of a document of SpecAttrs.
MaxAttrNodes == 2

\* What a node of a document of SpecAttrs is: a text node, or an element
\* with or without each of itemscope, itemprop, itemtype and itemid.
AttrKinds ==
    { [isText |-> TRUE, scope |-> FALSE, prop |-> Absent, type |-> Absent,
       id |-> Absent] }
    \cup
    [ isText : {FALSE},
      scope  : BOOLEAN,
      prop   : { Absent, << <<"a">> >> },
      type   : { Absent, << <<" ">> >>, << <<" ", "t", " ">> >> },
      id     : { Absent, << <<"i">> >> } ]

AttrKindNode(i, parent, kind) ==
    IF kind.isText THEN Text(parent, TextOf(i))
    ELSE Element(parent,
                 (IF kind.scope THEN <<Attr("itemscope", <<>>)>> ELSE <<>>)
                 \o Opt("itemprop", kind.prop)
                 \o Opt("itemtype", kind.type)
                 \o Opt("itemid", kind.id))

\* Every tree of at most MaxAttrNodes nodes over AttrKinds in which only
\* elements have children, the empty document included.
InitAttrs ==
    /\ \E n \in 0..MaxAttrNodes :
         \E par \in PreorderParents(n) :
           \E kind \in [1..n -> AttrKinds] :
              /\ \A i \in 1..n : par[i] # 0 => ~kind[par[i]].isText
              /\ doc = [i \in 1..n |-> AttrKindNode(i, par[i], kind[i])]
    /\ URL = BaseURL
    /\ pc = "call"
    /\ items = <<>>
    /\ errors = <<>>
    /\ walk = NoWalk
    /\ ExtractorIdle
    /\ JSONLDIdle
    /\ MetaIdle

SpecAttrs == InitAttrs /\ [][Next]_vars

\* n carries the attribute key, whatever its value.
HasAttr(n, key) ==
    IsElement(n) /\ \E i \in 1..Len(doc[n].Attr) : doc[n].Attr[i].Key = key

\* C12: a document without any itemscope element gives an empty item
\* sequence and an empty error sequence, whatever itemprop, itemtype and
\* itemid attributes it holds.
C12_NoScopeNoItems ==
    (Done /\ \A n \in NodeIds : ~HasAttr(n, "itemscope")) =>
        (items = <<>> /\ errors = <<>>)

\* C12's case: the walker has run on a document without itemscope whose
\* elements carry itemprop, itemtype and itemid.
C12_Witness ==
    /\ Done
    /\ \A n \in NodeIds : ~HasAttr(n, "itemscope")
    /\ \E n \in NodeIds :
           HasAttr(n, "itemprop") /\ HasAttr(n, "itemtype")
               /\ HasAttr(n, "itemid")
    /\ items = <<>>

\* e is the only top-level itemscope element of the document, carries no
\* itemid and has no descendant with an itemprop.
IsLoneBareScope(e) ==
    /\ HasAttr(e, "itemscope")
    /\ ~HasAttr(e, "itemid")
    /\ \A n \in NodeIds :
           /\ (HasAttr(n, "itemscope")
                 /\ \A a \in ProperAncestors(n) : ~HasAttr(a, "itemscope"))
              => n = e
           /\ e \in ProperAncestors(n) => ~HasAttr(n, "itemprop")

\* The itemtype of e cut of its surrounding white space, "" without one.
TrimmedType(e) ==
    IF HasAttr(e, "itemtype") THEN TrimSpace(RawAttr(e, "itemtype"))
    ELSE <<>>

C13_DocumentOrder ==
    Done =>
        \A i, j \in 1..Len(items) :
            items[i].node < items[j].node => i < j

\* C13's case: two top-level items whose root elements are not siblings.
C13_Witness ==
    /\ Done
    /\ \E i, j \in 1..Len(items) :
           /\ i < j
           /\ items[i].node < items[j].node
           /\ doc[items[i].node].parent # doc[items[j].node].parent

\* C14: the error sequence of the walker is empty, for every document and
\* every base URL.
C14_NoErrors == errors = <<>>

\* C14's case: the walker has resolved a relative href against a base URL
\* that does not parse.
C14_Witness ==
    /\ Done
    /\ urlParse(URL).err
    /\ \E c \in NodeIds :
           /\ IsPropertyElement(c)
           /\ IsUrlProp(PropName(c))
           /\ getAttr(c, "href")
           /\ ~IsAbsoluteHref(getAttrVal(c, "href"))
           /\ ~getAttr(c, "datetime")
    /\ errors = <<>>

(***************************************************************************)
(* C17, C18, C19: the Extractor                                            *)
(***************************************************************************)
\* The four supported syntaxes.
Supported == { "opengraph", "xcards", "json-ld", "microdata" }

\* The supported syntaxes of arg, in the order of arg.
RECURSIVE Kept(_)
Kept(arg) ==
    IF arg = <<>> THEN <<>>
    ELSE IF Head(arg) \in Supported THEN <<Head(arg)>> \o Kept(Tail(arg))
    ELSE Kept(Tail(arg))

\* The configured syntaxes, as a set.
Configured ==
    { extractor.cfg.syntaxes[i] : i \in 1..Len(extractor.cfg.syntaxes) }

\* Extract has returned nil for its error.
ExtractReturnedNil ==
    last.op = "Extract" /\ ex.pc = "returned" /\ last.err = <<>>

\* C17: after Extract has returned without error on a new Extractor, the
\* extracted map has an entry for each configured syntax and no other
\* entry, also for a syntax whose processor found nothing, under every
\* interleaving of the processor goroutines.
C17_EntryPerSyntax ==
    ExtractReturnedNil => DOMAIN extractor.extracted = Configured

\* C17's case: Extract has returned nil, a processor found nothing, and a
\* processor launched later stored its errors before an earlier one.
C17_Witness ==
    /\ ExtractReturnedNil
    /\ \E s \in Configured : extractor.extracted[s] = "nil"
    /\ \E a, b \in 1..Len(ex.processors), i, j \in 1..Len(extractor.errs) :
           /\ a < b /\ i < j
           /\ extractor.errs[i].src = ex.processors[b]
           /\ extractor.errs[j].src = ex.processors[a]

\* The step is a call of Extract without content whose fetch fails.
FetchFails ==
    /\ ex.pc = "idle"
    /\ ex'.pc # "idle"
    /\ last'.op = "Extract"
    /\ last'.arg[1] = "nil"
    /\ last'.arg[2] # "ok"

\* C18: when no content is supplied and the fetch fails, Extract returns
\* the error of the fetch, appends it once to the error list, starts no
\* processor and leaves the extracted map unchanged.
C18_FetchFailure ==
    [][FetchFails =>
          /\ ex'.pc = "returned"
          /\ last'.err = <<FetchError(last'.arg[2])>>
          /\ extractor'.errs =
                 Append(extractor.errs, FetchError(last'.arg[2]))
          /\ g' = <<>>
          /\ ex'.processors = <<>>
          /\ ex'.wg = 0
          /\ extractor'.extracted = extractor.extracted]_vars

\* C18's case: Extract has returned the error of a fetch that got a status
\* other than 200, after the syntaxes were configured.
C18_Witness ==
    /\ ex.pc = "returned"
    /\ last.op = "Extract"
    /\ last.arg = <<"nil", "status">>
    /\ last.err = <<FetchError("status")>>
    /\ extractor.errs = <<FetchError("status")>>
    /\ extractor.cfg.syntaxes = <<"microdata", "json-ld">>
    /\ extractor.extracted = EmptyMap
    /\ g = <<>>

\* C19: SetSyntaxes keeps the supported syntaxes of its argument in the
\* order of the argument and leaves the Extractor as it is when the
\* argument is empty or holds no supported syntax; so after New and any
\* sequence of SetSyntaxes, SetUserAgent and SetFetchTimeout the
\* configured list is non-empty and holds supported syntaxes only.
C19_SetSyntaxes ==
    /\ [](/\ extractor.cfg.syntaxes # <<>>
          /\ Configured \subseteq Supported)
    /\ [][last'.op = "SetSyntaxes" =>
              IF Kept(last'.arg) = <<>> THEN extractor' = extractor
              ELSE extractor' =
                       [extractor EXCEPT !.cfg.syntaxes = Kept(last'.arg)]
         ]_vars

\* C19's case: SetSyntaxes was called with an unsupported syntax before a
\* supported one and kept the supported one.
C19_Witness ==
    /\ last.op = "SetSyntaxes"
    /\ last.arg = <<"rdfa", "json-ld">>
    /\ extractor.cfg.syntaxes = <<"json-ld">>
    /\ extractor.cfg.userAgent = "ua"

(***************************************************************************)
(* C20: JSONLD                                                             *)
(***************************************************************************)
\* The blocks of LDBlocks that hold no JSON text, or an array with an
\* element that is no object: they cannot be decoded.
Undecodable ==
    { BlockArrayBroken, BlockObjectBroken, BlockNumberInArray,
      BlockObjectUnclosed, BlockObjectBehindMark }

\* The objects a block of LDBlocks holds, as texts without white space,
\* in the order of the block.
ObjectsOf(b) ==
    CASE b = BlockObject       -> << <<"{", "k", ":", "1", "}">> >>
      [] b = BlockEmptyObject  -> << <<"{", "}">> >>
      [] b = BlockArray        -> << <<"{", "k", ":", "1", "}">>,
                                     <<"{", "}">> >>
      [] b = BlockNullInArray  -> << <<"n">> >>
      [] OTHER                 -> <<>>

\* The values of the results that come from block i, in result order.
ResultsOf(i) ==
    LET rs == SelectSeq(ld.results, LAMBDA r : r.block = i)
    IN  [j \in 1..Len(rs) |-> rs[j].value]

\* The blocks the results and the errors come from, in their order.
ResultBlocks == [j \in 1..Len(ld.results) |-> ld.results[j].block]

ErrorBlocks == [j \in 1..Len(ld.errors) |-> ld.errors[j].block]

NonDecreasing(q) == \A i, j \in 1..Len(q) : i < j => q[i] <= q[j]

\* The results of every block that can be decoded are its objects, those
\* of every other block none, and results are in the order of the blocks.
BlocksContribute ==
    /\ \A i \in 1..Len(ld.matches) :
           ResultsOf(i) = IF ld.matches[i] \in Undecodable THEN <<>>
                          ELSE ObjectsOf(ld.matches[i])
    /\ NonDecreasing(ResultBlocks)

\* C20 (as claimed): every block that cannot be decoded adds exactly one
\* error and no item, the errors are in the order of their blocks, and
\* every other block contributes its objects, in document order.
C20_PerBlock ==
    ld.pc = "done" =>
        /\ ErrorBlocks =
               SortedSeq({ i \in 1..Len(ld.matches) :
                             ld.matches[i] \in Undecodable })
        /\ BlocksContribute

\* C20 for the blocks that begin with "[" or "{": of these, every block
\* that cannot be decoded adds exactly one error; the items are as claimed.
C20_BracketedBlocks ==
    ld.pc = "done" =>
        /\ ErrorBlocks =
               SortedSeq({ i \in 1..Len(ld.matches) :
                             /\ ld.matches[i] \in Undecodable
                             /\ ld.matches[i][1] \in { "[", "{" } })
        /\ BlocksContribute

(***************************************************************************)
(* C30: a white-space text node short-circuits the text scan               *)
(***************************************************************************)
\* The text nodes of ns, in document order, whose raw data is not empty.
NonEmptyTexts(ns) ==
    SelectSeq(ns, LAMBDA n : doc[n].Type = TextNode /\ doc[n].Data # <<>>)

\* No element of ns carries a value attribute.
NoValueAttr(ns) ==
    \A i \in 1..Len(ns) :
        doc[ns[i]].Type = ElementNode => ~getAttr(ns[i], "value")

\* C30: when the first text node with non-empty raw data below a property
\* element is white space only and no element of the subtree has a value
\* attribute, every later text node is ignored and the value of the
\* property is the empty string.
C30_WhitespaceFirst ==
    Done =>
        \A c \in NodeIds :
            (IsPropertyElement(c) /\ ~getAttr(c, "datetime")
                 /\ ~IsUrlProp(PropName(c))) =>
                LET ns == SortedSeq(Subtree(c))
                    ts == NonEmptyTexts(ns)
                IN  (/\ NoValueAttr(ns)
                     /\ ts # <<>>
                     /\ TrimSpace(doc[ts[1]].Data) = <<>>) =>
                        StringsFrom(c) = { <<>> }

\* C30's case: a white-space text node comes first, a text node with other
\* characters follows it, and the value is the empty string.
C30_Witness ==
    /\ Done
    /\ \E c \in NodeIds :
           /\ IsPropertyElement(c)
           /\ LET ns == SortedSeq(Subtree(c))
                  ts == NonEmptyTexts(ns)
              IN  /\ NoValueAttr(ns)
                  /\ Len(ts) >= 2
                  /\ TrimSpace(doc[ts[1]].Data) = <<>>
                  /\ TrimSpace(doc[ts[2]].Data) # <<>>
                  /\ StringsFrom(c) = { <<>> }

(***************************************************************************)
(* C27: the critical section of the processor goroutines                   *)
(***************************************************************************)
\* The orders the goroutines can have gone through the critical section
\* in: the permutations of their indices.
Orders ==
    { p \in [DOMAIN g -> DOMAIN g] : \A a, b \in DOMAIN g : p[a] = p[b] => a = b }

\* The errors of the goroutines p[1..n], one goroutine after the other.
RECURSIVE ErrsInOrder(_, _)
ErrsInOrder(p, n) ==
    IF n = 0 THEN <<>>
    ELSE ErrsInOrder(p, n - 1) \o g[p[n]].errorsExtracted

\* C27: Extract returns only after every goroutine it started has stored
\* its result; then the error list is, for some order of the processors,
\* the errors of each processor one processor after the other, each
\* processor's errors in their order, and the extracted map holds the
\* result of every processor.
C27_CriticalSection ==
    ExtractReturnedNil =>
        /\ \A k \in DOMAIN g : g[k].pc = "done"
        /\ \A k \in DOMAIN g :
               /\ ex.processors[k] \in DOMAIN extractor.extracted
               /\ extractor.extracted[ex.processors[k]] = g[k].extracted
        /\ \E p \in Orders : extractor.errs = ErrsInOrder(p, Len(g))

\* C27's case: Extract has returned after three processors, two of which
\* returned MaxProcErrors errors each, and the errors of the processor
\* launched last come first in the error list.
C27_Witness ==
    /\ ExtractReturnedNil
    /\ Len(g) >= 3
    /\ Len(g[1].errorsExtracted) = MaxProcErrors
    /\ Len(g[Len(g)].errorsExtracted) = MaxProcErrors
    /\ extractor.errs # <<>>
    /\ extractor.errs[1].src = ex.processors[Len(g)]
    /\ extractor.errs[Len(extractor.errs)].src = ex.processors[1]

(***************************************************************************)
(* C29: what Extract leaves alone on an Extractor that is used again       *)
(***************************************************************************)
IsPrefix(s, t) == Len(s) <= Len(t) /\ SubSeq(t, 1, Len(s)) = s

\* The used Extractors of SpecReuse are states an Extract leaves behind.
UsedReachable(u) ==
    /\ ex.pc = "returned"
    /\ extractor = u.extractor
    /\ last = u.last

\* C29: no step of SetSyntaxes or Extract removes or changes an error of
\* the error list, which only grows at its end, and no step removes an
\* entry of the extracted map or writes an entry other than one of a
\* syntax that is configured during the Extract that writes it.
C29_Frame ==
    [][/\ IsPrefix(extractor.errs, extractor'.errs)
       /\ DOMAIN extractor.extracted \subseteq DOMAIN extractor'.extracted
       /\ \A s \in DOMAIN extractor'.extracted :
              (\/ s \notin DOMAIN extractor.extracted
               \/ extractor'.extracted[s] # extractor.extracted[s])
                  => /\ ex.pc = "launch"
                     /\ s \in Configured]_vars

\* C29's case: a second Extract has returned on an Extractor that holds
\* four entries and two errors of an earlier Extract and was then
\* configured for microdata alone: the entry of microdata is new, the other
\* entries and the two errors are the old ones, and the new error comes
\* after them.
C29_Witness ==
    /\ ex.pc = "returned"
    /\ ex.processors = <<"microdata">>
    /\ Configured = { "microdata" }
    /\ DOMAIN extractor.extracted = DOMAIN UsedAllSyntaxes.extractor.extracted
    /\ extractor.extracted["microdata"] = "found"
    /\ \A s \in { "opengraph", "xcards", "json-ld" } :
           extractor.extracted[s] = UsedAllSyntaxes.extractor.extracted[s]
    /\ extractor.errs =
           UsedAllSyntaxes.extractor.errs \o <<ProcError("microdata", 1)>>

(***************************************************************************)
(* C25: GetExtractedJSON                                                   *)
(***************************************************************************)
\* The extracted map m holds a value encoding/json does not support.
Unserialisable(m) ==
    m # NilMap /\ \E k \in DOMAIN m : m[k] = ChanStruct

\* The number of line feeds of the text s.
RECURSIVE LineFeeds(_)
LineFeeds(s) ==
    IF s = "" THEN 0
    ELSE (IF Head(s) = "\n" THEN 1 ELSE 0) + LineFeeds(Tail(s))

\* The text is the indented JSON of a map with the keys of m: "null" for
\* the map never made, "{}" for the empty one, otherwise one member a
\* line, indented by two spaces, between the braces.
IndentedJSONOf(text, m) ==
    IF m = NilMap THEN text = "null"
    ELSE IF DOMAIN m = {} THEN text = "{}"
    ELSE /\ HasPrefix(text, "{\n  \"")
         /\ HasSuffix(text, "\n}")
         /\ LineFeeds(text) = Cardinality(DOMAIN m) + 1

\* C25: a call of GetExtractedJSON on a map that cannot be serialised
\* returns a nil message and appends exactly one error to the error list;
\* on any other map it returns the indented JSON of the map, "null" for
\* the map never made and "{}" for the empty one, and leaves the error
\* list unchanged; the extracted map is unchanged in both cases.
C25_GetExtractedJSON ==
    [][last'.op = "GetExtractedJSON" =>
          /\ extractor'.extracted = extractor.extracted
          /\ IF Unserialisable(extractor.extracted)
             THEN /\ last'.ret = <<>>
                  /\ extractor'.errs =
                         Append(extractor.errs, UnsupportedTypeError)
             ELSE /\ Len(last'.ret) = 1
                  /\ IndentedJSONOf(last'.ret[1], extractor.extracted)
                  /\ extractor'.errs = extractor.errs]_vars

\* C25's case: GetExtractedJSON has returned nil for a map with a string
\* and a struct with a channel, and the error list has grown by the error
\* of the encoder.
C25_Witness ==
    /\ last.op = "GetExtractedJSON"
    /\ last.ret = <<>>
    /\ DOMAIN extractor.extracted = { "key1", "key2" }
    /\ extractor.extracted["key1"] = GoString("value1")
    /\ extractor.extracted["key2"] = ChanStruct
    /\ extractor.errs = <<FetchError("status"), UnsupportedTypeError>>

(***************************************************************************)
(* C24: when ParseOpenGraph returns nil                                    *)
(***************************************************************************)
ParseOpenGraphDone == meta.call = "ParseOpenGraph" /\ meta.pc = "done"

\* The token is a meta tag whose attribute key and whose content are
\* both non-empty.
NamesProperty(token, key) ==
    /\ token.Type \in TagTokens
    /\ token.Data = "meta"
    /\ attrFrom(token.Attr, key, 1, "") # ""
    /\ attrFrom(token.Attr, "content", 1, "") # ""

\* The token is a meta tag with a property of the OpenGraph families and a
\* non-empty content.
InFamilies(token) ==
    /\ NamesProperty(token, "property")
    /\ \E p \in FamilyPrefixes :
           HasPrefix(attrFrom(token.Attr, "property", 1, ""), p)

\* C24: ParseOpenGraph returns nil for every page without a meta tag that
\* has a property of the og:, music:, video:, article:, book: or profile:
\* families and a non-empty content, and an object it returns has at least
\* one field set.
C24_NilWithoutFields ==
    ParseOpenGraphDone =>
        /\ (\A i \in 1..Len(meta.page) : ~InFamilies(meta.page[i]))
               => meta.results = <<>>
        /\ meta.results # <<>> => meta.results[1] # NewOpenGraph

\* What the code does instead: the result is nil exactly for the pages
\* without a meta tag that has a non-empty property, of whatever
\* vocabulary, and a non-empty content.
C24_NilWithoutProperty ==
    ParseOpenGraphDone =>
        (meta.results = <<>>
             <=> \A i \in 1..Len(meta.page) :
                     ~NamesProperty(meta.page[i], "property"))

(***************************************************************************)
(* C28, C22: the lists of structured properties                            *)
(***************************************************************************)
\* The groups of structured properties: the base property, the attribute
\* that names it, the path of its list in the struct, the sub-properties.
Groups ==
    { [base |-> "og:image", key |-> "property",
       path |-> <<"OpenGraphImage">>, fields |-> ImageFields],
      [base |-> "og:video", key |-> "property",
       path |-> <<"OpenGraphVideo">>, fields |-> VideoMediaFields],
      [base |-> "og:audio", key |-> "property",
       path |-> <<"OpenGraphAudio">>, fields |-> AudioFields],
      [base |-> "twitter:image", key |-> "name",
       path |-> <<"XCardsImage">>, fields |-> ImageFields],
      [base |-> "twitter:video", key |-> "name",
       path |-> <<"XCardsVideo">>, fields |-> VideoMediaFields],
      [base |-> "twitter:audio", key |-> "name",
       path |-> <<"XCardsAudio">>, fields |-> AudioFields],
      [base |-> "music:song", key |-> "any",
       path |-> <<"Music", "Song">>, fields |-> MusicSongFields],
      [base |-> "video:actor", key |-> "any",
       path |-> <<"Video", "Actor">>, fields |-> VideoActorFields] }

\* The list of group gr in the struct x; empty when x has no such list.
ListOf(x, gr) ==
    IF gr.path[1] \notin DOMAIN x THEN <<>>
    ELSE IF Len(gr.path) = 1 THEN x[gr.path[1]]
    ELSE IF x[gr.path[1]] = <<>> THEN <<>>
    ELSE x[gr.path[1]][1][gr.path[2]]

\* The loop that is at work, the struct it fills and the attribute it
\* reads the property from.
InLoop == meta.pc \in { "extractOpenGraph", "extractXCards" }

Struct == IF meta.pc = "extractXCards" THEN meta.xc ELSE meta.og

PropertyKey == IF meta.pc = "extractXCards" THEN "name" ELSE "property"

\* The step handles the token meta.page[meta.i] in a loop.
TokenStep == InLoop /\ meta.i <= Len(meta.page) /\ meta' # meta

\* The property and the content of the token about to be handled, "" for
\* a token that is skipped.
ThisProperty ==
    IF NamesProperty(meta.page[meta.i], PropertyKey)
    THEN attrFrom(meta.page[meta.i].Attr, PropertyKey, 1, "")
    ELSE ""

ThisContent == attrFrom(meta.page[meta.i].Attr, "content", 1, "")

\* The property is a sub-property of group gr.
IsSubProperty(p, gr) ==
    \E k \in DOMAIN gr.fields : p = gr.base \o ":" \o k

\* C28: parsing never ends in a run-time panic, whatever the order of the
\* meta tags; in particular not on a sub-property that comes before any
\* base property of its group.
C28_NoFault == meta.pc # "panic"

\* What the code does instead: of the tokens of the pages, one makes the
\* loop panic exactly when it is a sub-property whose group has an empty
\* list.
C28_FaultOnEmptyList ==
    [][TokenStep =>
          (meta'.pc = "panic"
               <=> \E gr \in Groups :
                       /\ IsSubProperty(ThisProperty, gr)
                       /\ ListOf(Struct, gr) = <<>>)]_vars

\* The struct after the step of a loop.
StructAfter == IF meta.pc = "extractXCards" THEN meta'.xc ELSE meta'.og

\* The groups the loop at work reads.
GroupsOfLoop == { gr \in Groups : gr.key \in { PropertyKey, "any" } }

\* The number of base tags of group gr among the first n tokens.
BaseTags(gr, n) ==
    Cardinality({ j \in 1..n :
                    /\ NamesProperty(meta.page[j], PropertyKey)
                    /\ attrFrom(meta.page[j].Attr, PropertyKey, 1, "")
                           = gr.base })

\* The step appends one entry, with the content as its URL, to the list l
\* and leaves the entries of l as they are.
AppendsEntry(l, l2) ==
    /\ Len(l2) = Len(l) + 1
    /\ SubSeq(l2, 1, Len(l)) = l
    /\ l2[Len(l2)].URL = ThisContent

\* The step changes at most the field of sub-property p in the last entry
\* of l.
SetsOnLast(l, l2, p, gr) ==
    /\ Len(l2) = Len(l)
    /\ \A j \in 1..Len(l) :
           \A f \in DOMAIN l[j] :
               l2[j][f] # l[j][f]
                   => /\ j = Len(l)
                      /\ p = gr.base \o ":"
                               \o (CHOOSE k \in DOMAIN gr.fields :
                                       gr.fields[k] = f)

\* What a step of a loop that does not panic does to the list of gr for a
\* base tag and for a sub-property tag.
BaseAndSub(gr) ==
    LET l  == ListOf(Struct, gr)
        l2 == ListOf(StructAfter, gr)
    IN  /\ ThisProperty = gr.base => AppendsEntry(l, l2)
        /\ IsSubProperty(ThisProperty, gr) => SetsOnLast(l, l2, ThisProperty, gr)

\* C22: in document order, each base tag of a group of structured
\* properties appends a new entry to the list of the group, each
\* sub-property tag sets its field on the last entry and changes no other
\* entry, and the list has as many entries as base tags have been handled.
C22_Entries ==
    /\ [](InLoop =>
             \A gr \in GroupsOfLoop :
                 Len(ListOf(Struct, gr)) = BaseTags(gr, meta.i - 1))
    /\ [][(TokenStep /\ meta'.pc # "panic") =>
              \A gr \in GroupsOfLoop : BaseAndSub(gr)]_vars

\* What holds of the code: a base tag appends, a sub-property tag sets its
\* field on the last entry only, and a property that does not begin with
\* the base property of a group leaves the list of the group unchanged.
C22_BaseAndSubProperties ==
    [][(TokenStep /\ meta'.pc # "panic") =>
          \A gr \in GroupsOfLoop :
              /\ BaseAndSub(gr)
              /\ ~HasPrefix(ThisProperty, gr.base)
                     => ListOf(StructAfter, gr) = ListOf(Struct, gr)]_vars

(***************************************************************************)
(* C23: malformed numbers and dates                                        *)
(***************************************************************************)
\* The tables of the property families that have a struct of their own.
FamilyTables ==
    [Music |-> MusicProperties, Video |-> VideoProperties,
     Article |-> ArticleProperties, Book |-> BookProperties,
     Profile |-> ProfileProperties]

\* Property p is assigned as how ("int", "time") to a field of a family
\* struct, or to a field of an entry of a group.
FamilyOf(p, how) ==
    { f \in DOMAIN FamilyTables :
        p \in DOMAIN FamilyTables[f] /\ FamilyTables[f][p][2] = how }

GroupOf(p) ==
    { gr \in GroupsOfLoop :
        \E k \in DOMAIN gr.fields :
            p = gr.base \o ":" \o k /\ gr.fields[k] \in IntFields }

IsIntProperty(p) == FamilyOf(p, "int") # {} \/ GroupOf(p) # {}

IsTimeProperty(p) == FamilyOf(p, "time") # {}

\* The object that holds the field of p exists after the step.
HolderAfter(p) ==
    /\ \A f \in FamilyOf(p, "int") \cup FamilyOf(p, "time") :
           StructAfter[f] # <<>>
    /\ \A gr \in GroupOf(p) : ListOf(StructAfter, gr) # <<>>

\* The field of p after the step has the value v.
FieldAfterIs(p, v) ==
    /\ \A f \in FamilyOf(p, "int") \cup FamilyOf(p, "time") :
           StructAfter[f][1][FamilyTables[f][p][1]] = v
    /\ \A gr \in GroupOf(p) :
           LET l == ListOf(StructAfter, gr)
               k == CHOOSE k \in DOMAIN gr.fields : p = gr.base \o ":" \o k
           IN  l[Len(l)][gr.fields[k]] = v

\* The content is an integer: a sign or none, decimal digits, nothing
\* else.
IsInteger(c) ==
    LET j == IF Len(c) > 0 /\ SubSeq(c, 1, 1) \in { "+", "-" } THEN 2
             ELSE 1
    IN  j <= Len(c) /\ \A i \in j..Len(c) : isDigit(c, i)

\* The content begins with an integer: after blanks and a sign or none
\* comes a decimal digit.
BeginsWithInteger(c) ==
    \E i \in 1..Len(c) :
        /\ isDigit(c, i)
        /\ \E b \in 0..(i - 1) :
               /\ \A j \in 1..b : SubSeq(c, j, j) \in { " ", "\t" }
               /\ b = i - 1 \/ (b = i - 2 /\ SubSeq(c, i - 1, i - 1)
                                               \in { "+", "-" })

\* The content matches one of the accepted formats of a date.
MatchesFormat(c) ==
    \E i \in 1..Len(TimeFormats) : timeParse(TimeFormats[i], c).ok

NotInteger(c) == ~IsInteger(c)

NoLeadingInteger(c) == ~BeginsWithInteger(c)

\* What both statements of C23 say of a step of a loop; strict says
\* which contents of a number are malformed: those that are not an
\* integer, or only those that do not begin with one.
MalformedStep(strict) ==
    (TokenStep /\ meta'.pc # "panic") =>
        LET p == ThisProperty
            c == ThisContent
            malformed == IF strict THEN NotInteger(c)
                         ELSE NoLeadingInteger(c)
        IN  /\ (IsIntProperty(p) \/ IsTimeProperty(p)) => HolderAfter(p)
            /\ (IsIntProperty(p) /\ malformed) => FieldAfterIs(p, 0)
            /\ (IsTimeProperty(p) /\ ~MatchesFormat(c))
                   => FieldAfterIs(p, ZeroTime)

ParseXCardsDone == meta.call = "ParseXCards" /\ meta.pc = "done"

\* The field of kind k holds no value.
Unset(v, k) ==
    IF k = "string" THEN v = ""
    ELSE IF k = "int" THEN v = 0
    ELSE IF k = "time" THEN v = ZeroTime
    ELSE v = <<>>

\* The struct t with every field of the kinds it shares with s taken from
\* s where t holds no value, the fields of nested objects included.
RECURSIVE Fallback(_, _, _, _)
Fallback(t, s, fieldKinds, kinds) ==
    [f \in DOMAIN t |->
        IF f \notin DOMAIN s THEN t[f]
        ELSE IF fieldKinds[f][1] = "ptr" /\ t[f] # <<>> /\ s[f] # <<>>
        THEN <<Fallback(t[f][1], s[f][1], fieldKinds[f][2], kinds)>>
        ELSE IF fieldKinds[f][1] \notin kinds THEN t[f]
        ELSE IF Unset(t[f], fieldKinds[f][1]) THEN s[f]
        ELSE t[f]]

\* The X Cards object of the name meta tags, empty when there is none.
XCardsOfTags == IF meta.xcHasValue THEN meta.xc ELSE NewXCards

\* The result of ParseXCards is nil exactly when the page yields neither
\* an X Cards nor an OpenGraph object, and otherwise the X Cards object
\* with the fields of the given kinds taken from OpenGraph where unset.
FallsBack(kinds) ==
    ParseXCardsDone =>
        /\ meta.results = <<>> <=> (~meta.xcHasValue /\ ~meta.ogHasValue)
        /\ (meta.results # <<>> /\ meta.ogHasValue) =>
               meta.results[1] =
                   Fallback(XCardsOfTags, meta.og, OpenGraphKinds, kinds)
        /\ (meta.results # <<>> /\ ~meta.ogHasValue) =>
               meta.results[1] = meta.xc

\* C21: every field XCards shares with OpenGraph, the fields of the nested
\* objects included, holds the value of the name meta tags when there is
\* one and the value extracted for OpenGraph otherwise; the result is nil
\* only when the page yields neither object.
C21_Fallback == FallsBack({ "string", "int", "time", "slice", "ptr" })

\* What holds of the code: the fallback of the strings, the lists and the
\* nested objects as a whole; a number or a time of a nested object that
\* both have is never taken from OpenGraph.
C21_FallbackStringsLists == FallsBack({ "string", "slice", "ptr" })

(***************************************************************************)
(* C26: termination of the walk                                            *)
(***************************************************************************)
\* How often the functions of the walk were entered with node n.
Entries(n) ==
    walk.entered.parseNode[n] + walk.entered.parseProperties[n]
        + walk.entered.f[n]

\* Each of parseNode, parseProperties and f was entered with each node at
\* most once, and each node by at most two of them.
EnteredBounded ==
    pc \in { "walk", "done" } =>
        \A n \in 0..Len(doc) :
            /\ walk.entered.parseNode[n] <= 1
            /\ walk.entered.parseProperties[n] <= 1
            /\ walk.entered.f[n] <= 1
            /\ Entries(n) <= 2

\* The walk has returned what parseW3CMicrodata computes for the document.
WalkResult ==
    LET r == parseW3CMicrodata(URL)
    IN  /\ walk.stack = <<>>
        /\ items = [i \in 1..Len(r.items) |-> copyItem(r.items[i])]
        /\ errors = r.errors

\* C26: on every document tree the walk comes to its end, once the calls
\* on the subtree of the root have returned, and returns its result; no
\* function is entered with a node more than once, so no node is entered
\* more than a bounded number of times; and no node, whatever its
\* attributes, stops the walk before its end or keeps it from ending.
C26_Termination ==
    /\ [](EnteredBounded /\ (pc = "done" => WalkResult))
    /\ <>(pc = "done")

\* C26's case: the walk of a document of MaxNodes nodes has returned; it
\* went through a scope element with parseNode and with parseProperties,
\* through a scope element below it with parseProperties alone and
\* through a property element and its text with f.
C26_Witness ==
    /\ pc = "done"
    /\ walk.stack = <<>>
    /\ Len(doc) = MaxNodes
    /\ Len(items) = 1
    /\ \E n, m, p, t \in 1..Len(doc) :
          /\ doc[m].parent = n
          /\ doc[p].parent = m
          /\ doc[t].parent = p
          /\ doc[t].Type = TextNode
          /\ walk.entered.parseNode[n] = 1
          /\ walk.entered.parseProperties[n] = 1
          /\ walk.entered.parseNode[m] = 0
          /\ walk.entered.parseProperties[m] = 1
          /\ getAttr(m, "itemscope")
          /\ walk.entered.f[p] = 1
          /\ walk.entered.f[t] = 1
          /\ Entries(t) = 1

=============================================================================
